---- MODULE Spec2Model ----
(***************************************************************************)
(* Model of the form-builder decision engine: the condition evaluator, the *)
(* field-state resolver, the page-navigation resolver and the rendering    *)
(* state machine, together with the submission service that stores the     *)
(* answers.  The relational store is modelled as tables (sequences of rows *)
(* in primary-key order).  requests holds the submit_answer requests that  *)
(* are being processed step by step, each with its position in the handler *)
(* (it stays empty where the handlers are taken as atomic).                *)
(***************************************************************************)
EXTENDS Integers, Sequences, FiniteSets, TLC

VARIABLES forms, pages, fields, conditions, nav_rules, submissions, responses, last,
          requests

vars == <<forms, pages, fields, conditions, nav_rules, submissions, responses, last,
          requests>>

(***************************************************************************)
(* Values.  A Python value is a tagged record: None, a str held as a       *)
(* sequence of one-character strings, or a list of such strs.  Column      *)
(* value 0 stands for SQL NULL in integer foreign-key columns.             *)
(***************************************************************************)
NULL == [k |-> "none", v |-> <<>>]

Str(s) == [k |-> "str", v |-> s]

EmptyStr == Str(<<>>)

\* a list of strs (the value of a multiple-choice field)
List(elems) == [k |-> "list", v |-> elems]

NoId == 0

\* str.lower() on one character of the model's alphabet
LowerChar(c) ==
    IF c = "A" THEN "a" ELSE IF c = "B" THEN "b" ELSE c

\* str.lower()
Lower(s) == [i \in 1..Len(s) |-> LowerChar(s[i])]

\* Python's `sub in s` on strings
IsSubstr(sub, s) ==
    \E i \in 0..(Len(s) - Len(sub)) : SubSeq(s, i + 1, i + Len(sub)) = sub

\* str.strip() on the model's alphabet (the only whitespace is " ")
RECURSIVE StripLeft(_)
StripLeft(s) ==
    IF s # <<>> /\ Head(s) = " " THEN StripLeft(Tail(s)) ELSE s

RECURSIVE StripRight(_)
StripRight(s) ==
    IF s # <<>> /\ s[Len(s)] = " " THEN StripRight(SubSeq(s, 1, Len(s) - 1)) ELSE s

Strip(s) == StripRight(StripLeft(s))

\* str.split(","): the pieces between commas, in order (always at least one)
RECURSIVE SplitComma(_, _)
SplitComma(s, cur) ==
    IF s = <<>> THEN <<cur>>
    ELSE IF Head(s) = "," THEN <<cur>> \o SplitComma(Tail(s), <<>>)
    ELSE SplitComma(Tail(s), Append(cur, Head(s)))

Digits == {"0", "1", "2", "3", "4", "5", "6", "7", "8", "9"}

DigitVal(c) ==
    CASE c = "0" -> 0 [] c = "1" -> 1 [] c = "2" -> 2 [] c = "3" -> 3 [] c = "4" -> 4
      [] c = "5" -> 5 [] c = "6" -> 6 [] c = "7" -> 7 [] c = "8" -> 8 [] c = "9" -> 9

RECURSIVE DigitsVal(_, _)
DigitsVal(s, acc) ==
    IF s = <<>> THEN acc ELSE DigitsVal(Tail(s), acc * 10 + DigitVal(Head(s)))

\* float(s) on the model's alphabet: surrounding blanks are ignored, then a
\* non-empty run of digits parses; anything else raises ValueError (ok = FALSE)
ParseFloat(s) ==
    LET t == Strip(s)
    IN  IF t # <<>> /\ \A i \in 1..Len(t) : t[i] \in Digits
        THEN [ok |-> TRUE, n |-> DigitsVal(t, 0)]
        ELSE [ok |-> FALSE, n |-> 0]

\* str(list) of a list of strs: "['a', 'b']"
RECURSIVE ListItems(_)
ListItems(elems) ==
    IF elems = <<>> THEN <<>>
    ELSE <<"'">> \o Head(elems) \o <<"'">>
         \o (IF Tail(elems) = <<>> THEN <<>> ELSE <<",", " ">>)
         \o ListItems(Tail(elems))

ListRepr(elems) == <<"[">> \o ListItems(elems) \o <<"]">>

\* variant: an empty list is not empty
IsEmptyValue_WithoutList(field_value) ==
    \/ field_value.k = "none"
    \/ field_value.k = "str" /\ field_value.v = <<>>

\* `field_value is None or field_value == "" or
\*  (isinstance(field_value, list) and len(field_value) == 0)`
IsEmptyValue(field_value) ==
    \/ field_value.k = "none"
    \/ field_value.k = "str" /\ field_value.v = <<>>
    \/ field_value.k = "list" /\ field_value.v = <<>>

\* the comparisons of evaluate_operator, for a field_value that is not None
CompareValues(operator, field_value, condition_value) ==
    LET field_str == IF field_value.k = "list" THEN ListRepr(field_value.v)
                     ELSE Lower(field_value.v)
        condition_str == Lower(condition_value)
        values == LET parts == SplitComma(condition_value, <<>>)
                  IN  {Lower(Strip(parts[i])) : i \in 1..Len(parts)}
        field_num == IF field_value.k = "list" THEN [ok |-> FALSE, n |-> 0]
                     ELSE ParseFloat(field_value.v)
        condition_num == ParseFloat(condition_value)
    IN  CASE operator = "equals" -> field_str = condition_str
          [] operator = "not_equals" -> field_str # condition_str
          [] operator = "contains" -> IsSubstr(condition_str, field_str)
          [] operator = "not_contains" -> ~IsSubstr(condition_str, field_str)
          [] operator = "in" -> field_str \in values
          [] operator = "not_in" -> field_str \notin values
          [] operator = "greater_than" ->
               field_num.ok /\ condition_num.ok /\ field_num.n > condition_num.n
          [] operator = "less_than" ->
               field_num.ok /\ condition_num.ok /\ field_num.n < condition_num.n
          [] operator = "greater_equal" ->
               field_num.ok /\ condition_num.ok /\ field_num.n >= condition_num.n
          [] operator = "less_equal" ->
               field_num.ok /\ condition_num.ok /\ field_num.n <= condition_num.n
          [] OTHER -> FALSE

\* variant: None is compared like the empty string
evaluate_operator_NoneAsEmptyStr(operator, field_value, condition_value) ==
    IF operator = "is_empty" THEN IsEmptyValue(field_value)
    ELSE IF operator = "is_not_empty" THEN ~IsEmptyValue(field_value)
    ELSE CompareValues(operator,
                       IF field_value.k = "none" THEN EmptyStr ELSE field_value,
                       condition_value)

evaluate_operator(operator, field_value, condition_value) ==
    IF operator = "is_empty" THEN IsEmptyValue(field_value)
    ELSE IF operator = "is_not_empty" THEN ~IsEmptyValue(field_value)
    ELSE IF field_value.k = "none" THEN FALSE
    ELSE CompareValues(operator, field_value, condition_value)

(***************************************************************************)
(* Dictionaries of answers: functions from a set of field names to values. *)
(***************************************************************************)
EmptyDict == [n \in {} |-> NULL]

\* dict.get(name): None when the key is missing
Get(d, name) == IF name \in DOMAIN d THEN d[name] ELSE NULL

\* {**base, **over}
Merge(base, over) ==
    [n \in (DOMAIN base) \cup (DOMAIN over) |->
        IF n \in DOMAIN over THEN over[n] ELSE base[n]]

\* d[name] = value
Put(d, name, value) ==
    [n \in (DOMAIN d) \cup {name} |-> IF n = name THEN value ELSE d[n]]

(***************************************************************************)
(* Queries on the tables.  Rows come back in primary-key order, which is   *)
(* the order of the sequences.                                             *)
(***************************************************************************)
\* a local name for a value: body(value)
Let(value, body(_)) == body(value)

\* .first(): the first row or the absent row (id = NoId)
First(rows, absent) == IF rows = <<>> THEN absent ELSE Head(rows)

AbsentRow == [id |-> NoId]

\* sorted(rows, key=...): ascending for the key order Less, stable on the given order
SortedBy(rows, Less(_, _)) ==
    LET Before(j, i) ==
            Less(rows[j], rows[i]) \/ (~Less(rows[i], rows[j]) /\ j < i)
        Rank(i) == Cardinality({j \in 1..Len(rows) : Before(j, i)})
    IN  [r \in 1..Len(rows) |-> rows[CHOOSE i \in 1..Len(rows) : Rank(i) = r - 1]]

\* position of the first row with the given id, or 0
IndexOfId(rows, id) ==
    IF \E i \in 1..Len(rows) : rows[i].id = id
    THEN CHOOSE i \in 1..Len(rows) :
            rows[i].id = id /\ \A j \in 1..(i - 1) : rows[j].id # id
    ELSE 0

\* db.query(Field).filter(Field.id == field_id).first()
FieldById(tfields, field_id) ==
    First(SelectSeq(tfields, LAMBDA f : f.id = field_id), AbsentRow)

\* db.query(Field).filter(Field.page_id == page_id).order_by(Field.order).all()
FieldsOfPage(tfields, page_id) ==
    SortedBy(SelectSeq(tfields, LAMBDA f : f.page_id = page_id), LAMBDA f, g : f.order < g.order)

\* db.query(Field).filter(Field.page_id.in_(pages of the form)).all()
FieldsOfForm(tpages, tfields, form_id) ==
    SelectSeq(tfields, LAMBDA f :
        \E i \in 1..Len(tpages) : tpages[i].form_id = form_id /\ tpages[i].id = f.page_id)

\* Page.navigation_rules: the page's rules in load order
RulesOfPage(trules, page_id) == SelectSeq(trules, LAMBDA r : r.page_id = page_id)

\* db.query(FieldCondition).filter(target_field_id == field_id), in load order
ConditionsOfTarget(tconds, field_id) ==
    SelectSeq(tconds, LAMBDA c : c.target_field_id = field_id)

\* sorted(all_pages, key=lambda p: (not p.is_first, p.order or 0))
PageKeyLess(p, q) ==
    \/ p.is_first /\ ~q.is_first
    \/ p.is_first = q.is_first /\ p.order < q.order

SortedPages(tpages, form_id) ==
    SortedBy(SelectSeq(tpages, LAMBDA p : p.form_id = form_id), PageKeyLess)

\* the loop `answers[field.name] = response.value` over the rows of one submission
RECURSIVE AnswersFromRows(_, _, _)
AnswersFromRows(rows, tfields, answers) ==
    IF rows = <<>> THEN answers
    ELSE AnswersFromRows(Tail(rows), tfields,
                         Put(answers, FieldById(tfields, Head(rows).field_id).name,
                             Head(rows).value))

get_answers_by_submission_id(tresponses, tfields, submission_id) ==
    AnswersFromRows(SelectSeq(tresponses, LAMBDA r : r.submission_id = submission_id),
                    tfields, EmptyDict)

get_current_answers(tsubmissions, tresponses, tfields, session_id) ==
    LET submission == First(SelectSeq(tsubmissions, LAMBDA s : s.session_id = session_id),
                            AbsentRow)
    IN  IF submission.id = NoId THEN EmptyDict
        ELSE get_answers_by_submission_id(tresponses, tfields, submission.id)

(***************************************************************************)
(* ConditionEngine                                                         *)
(***************************************************************************)
\* the loop over the conditions of evaluate_field_conditions
RECURSIVE ApplyConditions(_, _, _, _)
ApplyConditions(conds, tfields, answers, result) ==
    IF conds = <<>> THEN result
    ELSE
      LET condition == Head(conds)
          source_field_name == FieldById(tfields, condition.source_field_id).name
          field_value == Get(answers, source_field_name)
          condition_met == evaluate_operator(condition.operator, field_value, condition.value)
          action == condition.action
          applied ==
            IF ~condition_met THEN result
            ELSE CASE action = "show" -> [result EXCEPT !.show = TRUE, !.hide = FALSE]
                   [] action = "hide" -> [result EXCEPT !.show = FALSE, !.hide = TRUE]
                   [] action = "enable" -> [result EXCEPT !.enable = TRUE, !.disable = FALSE]
                   [] action = "disable" -> [result EXCEPT !.enable = FALSE, !.disable = TRUE]
                   [] action = "require" -> [result EXCEPT !.require = TRUE]
                   [] action = "skip" -> [result EXCEPT !.skip = TRUE]
                   [] OTHER -> result
      IN  ApplyConditions(Tail(conds), tfields, answers, applied)

HasAction(conds, action) == \E i \in 1..Len(conds) : conds[i].action = action

\* the result before the loop: the defaults given by the actions that exist
BaselineResult(conds) ==
    LET has_show_conditions == HasAction(conds, "show")
        has_hide_conditions == HasAction(conds, "hide")
        has_require_conditions == HasAction(conds, "require")
        has_disable_conditions == HasAction(conds, "disable")
        has_skip_conditions == HasAction(conds, "skip")
        hidden_by_default == has_show_conditions /\ ~has_hide_conditions
    IN  [show |-> ~hidden_by_default,
         hide |-> hidden_by_default,
         enable |-> ~has_disable_conditions,
         disable |-> has_disable_conditions,
         require |-> has_require_conditions,
         skip |-> has_skip_conditions]

\* variant: a field with show conditions is shown before any of them is met
evaluate_field_conditions_ShownByDefault(conds, tfields, answers) ==
    ApplyConditions(conds, tfields, answers,
                    [BaselineResult(conds) EXCEPT !.show = TRUE, !.hide = FALSE])

\* variant: the hide conditions are not applied
evaluate_field_conditions_WithoutHide(conds, tfields, answers) ==
    ApplyConditions(SelectSeq(conds, LAMBDA c : c.action # "hide"), tfields, answers,
                    BaselineResult(conds))

\* variant: a show condition hides the field by default even next to a hide condition
evaluate_field_conditions_HiddenWithAnyShow(conds, tfields, answers) ==
    ApplyConditions(conds, tfields, answers,
                    [BaselineResult(conds) EXCEPT !.show = ~HasAction(conds, "show"),
                                                  !.hide = HasAction(conds, "show")])

\* variant: require is FALSE before any require condition is met
evaluate_field_conditions_RequireWhenMet(conds, tfields, answers) ==
    ApplyConditions(conds, tfields, answers,
                    [BaselineResult(conds) EXCEPT !.require = FALSE])

\* variant: the conditions are applied from the last to the first
evaluate_field_conditions_LastToFirst(conds, tfields, answers) ==
    ApplyConditions([i \in 1..Len(conds) |-> conds[Len(conds) + 1 - i]], tfields, answers,
                    BaselineResult(conds))

evaluate_field_conditions(conds, tfields, answers) ==
    ApplyConditions(conds, tfields, answers, BaselineResult(conds))

\* variant: the rules are walked in stored order, without the sort
SortedRules_StoredOrder(rules) == rules

\* sorted(navigation_rules, key=lambda r: r.is_default): False before True, stable
SortedRules(rules) == SortedBy(rules, LAMBDA r, q : ~r.is_default /\ q.is_default)

\* the loop over sorted_rules; the result is a target page id or NoId (None)
RECURSIVE FirstRuleTarget(_, _, _)
FirstRuleTarget(sorted_rules, tfields, answers) ==
    IF sorted_rules = <<>> THEN NoId
    ELSE
      LET rule == Head(sorted_rules)
      IN  IF rule.is_default THEN rule.target_page_id
          ELSE IF rule.source_field_id # NoId
                  /\ evaluate_operator(rule.operator,
                                       Get(answers, FieldById(tfields, rule.source_field_id).name),
                                       rule.value)
               THEN rule.target_page_id
          ELSE FirstRuleTarget(Tail(sorted_rules), tfields, answers)

determine_next_page(navigation_rules, tfields, answers) ==
    FirstRuleTarget(SortedRules(navigation_rules), tfields, answers)

(***************************************************************************)
(* FormRendererService                                                     *)
(***************************************************************************)
\* `v is not None and v != ''`
HasAnswer(v) == ~(v.k = "none") /\ ~(v.k = "str" /\ v.v = <<>>)

\* `default_value is not None and default_value != ""`
HasDefault(f) == HasAnswer(f.default_value)

\* the loop that adds "" or the default for the missing fields of the page
RECURSIVE FillPageFields(_, _)
FillPageFields(page_fields, answers) ==
    IF page_fields = <<>> THEN answers
    ELSE LET f == Head(page_fields)
         IN  FillPageFields(Tail(page_fields),
                IF f.name \in DOMAIN answers THEN answers
                ELSE Put(answers, f.name, IF HasDefault(f) THEN f.default_value ELSE EmptyStr))

\* variant: the defaults of the fields of the other pages are not added
FillFormDefaults_Nothing(form_fields, answers) == answers

\* the loop that adds the default for the missing fields of the other pages
RECURSIVE FillFormDefaults(_, _)
FillFormDefaults(form_fields, answers) ==
    IF form_fields = <<>> THEN answers
    ELSE LET f == Head(form_fields)
         IN  FillFormDefaults(Tail(form_fields),
                IF f.name \notin DOMAIN answers /\ HasDefault(f)
                THEN Put(answers, f.name, f.default_value) ELSE answers)

\* condition_evaluation_answers
ConditionEvaluationAnswers(tpages, tfields, form_id, page_id, answers) ==
    FillFormDefaults(FieldsOfForm(tpages, tfields, form_id),
                     FillPageFields(FieldsOfPage(tfields, page_id), answers))

\* one RenderedField: the static flags, overridden by the conditions that
\* target the field; is_required is returned from the column
RenderField(field, page_id, tfields, tconds, cond_answers, value_answers) ==
    Let(ConditionsOfTarget(tconds, field.id), LAMBDA target_conditions :
    Let(evaluate_field_conditions(target_conditions, tfields, cond_answers),
        LAMBDA condition_result :
    Let(SelectSeq(target_conditions, LAMBDA c :
            FieldById(tfields, c.source_field_id).page_id = page_id), LAMBDA same_page :
        [id |-> field.id,
         name |-> field.name,
         is_required |-> field.is_required,
         is_visible |->
            IF HasAction(target_conditions, "show") \/ HasAction(target_conditions, "hide")
            THEN condition_result.show /\ ~condition_result.hide
            ELSE field.is_visible,
         default_value |-> field.default_value,
         current_value |-> Get(value_answers, field.name),
         conditions |-> [i \in 1..Len(same_page) |->
                            [source_field_name |->
                                 FieldById(tfields, same_page[i].source_field_id).name,
                             operator |-> same_page[i].operator,
                             value |-> same_page[i].value,
                             action |-> same_page[i].action]]])))

\* variant: the progress counts the pages before the rendered one
Progress_PagesBefore(index, total_pages) ==
    IF total_pages > 0
    THEN (2 * (index - 1) * 10000 + total_pages) \div (2 * total_pages)
    ELSE 0

\* round(progress, 2), held in hundredths of a percent
Progress(index, total_pages) ==
    IF total_pages > 0
    THEN (2 * index * 10000 + total_pages) \div (2 * total_pages)
    ELSE 0

\* variant: completion does not look at the answers of the page
IsComplete_WithoutAnswers(next_page_id, page_fields, answers) ==
    next_page_id = NoId

\* `is_complete = next_page_id is None and current_page_has_answers`
IsComplete(next_page_id, page_fields, answers) ==
    /\ next_page_id = NoId
    /\ \E i \in 1..Len(page_fields) : HasAnswer(Get(answers, page_fields[i].name))

\* variant: a page that has rules never falls back to the sequential successor
NextPageId_WithoutFallback(navigation_rules, tfields, nav_answers, sorted_pages, current_page_index) ==
    IF navigation_rules # <<>>
    THEN determine_next_page(navigation_rules, tfields, nav_answers)
    ELSE IF current_page_index < Len(sorted_pages) - 1
         THEN sorted_pages[current_page_index + 2].id
         ELSE NoId

\* the next page: the navigation rules first, the sequential successor when
\* the rules give nothing (or there are none) and the page is not the last one
NextPageId(navigation_rules, tfields, nav_answers, sorted_pages, current_page_index) ==
    Let(current_page_index < Len(sorted_pages) - 1, LAMBDA has_successor :
    Let(determine_next_page(navigation_rules, tfields, nav_answers), LAMBDA by_rules :
        IF navigation_rules # <<>>
        THEN IF by_rules = NoId /\ has_successor
             THEN sorted_pages[current_page_index + 2].id
             ELSE by_rules
        ELSE IF has_successor THEN sorted_pages[current_page_index + 2].id ELSE NoId))

\* current_page_index: the 0-based position of the page in sorted_pages
\* (missing_index when the page is not in the list)
PageIndex(sorted_pages, page_id, missing_index) ==
    Let(IndexOfId(sorted_pages, page_id), LAMBDA found :
        IF found = 0 THEN missing_index ELSE found - 1)

\* One pass over a page: the rendered page, the next page, the progress and
\* the completion flag.
RenderPass(tpages, tfields, tconds, trules, form_id, page, cond_answers, nav_answers, value_answers, missing_index) ==
    Let(FieldsOfPage(tfields, page.id), LAMBDA page_fields :
    Let(SortedPages(tpages, form_id), LAMBDA sorted_pages :
    Let(PageIndex(sorted_pages, page.id, missing_index), LAMBDA current_page_index :
    Let(NextPageId(RulesOfPage(trules, page.id), tfields, nav_answers,
                   sorted_pages, current_page_index), LAMBDA next_page_id :
        [current_page |->
            [id |-> page.id, order |-> page.order, is_first |-> page.is_first,
             fields |-> [i \in 1..Len(page_fields) |->
                            RenderField(page_fields[i], page.id, tfields, tconds,
                                        cond_answers, value_answers)]],
         next_page_id |-> next_page_id,
         is_complete |-> IsComplete(next_page_id, page_fields, value_answers),
         progress |-> Progress(current_page_index + 1, Len(sorted_pages))]))))

SubmissionById(tsubmissions, id) ==
    First(SelectSeq(tsubmissions, LAMBDA s : s.id = id), AbsentRow)

\* the primary key given to the next inserted row
NextId(rows) == Len(rows) + 1

\* variant: a session is created in status completed
NewSubmission_Completed(id, form_id, session_id) ==
    [id |-> id, form_id |-> form_id, session_id |-> session_id,
     status |-> "completed", current_page_id |-> NoId, completed_at |-> FALSE]

NewSubmission(id, form_id, session_id) ==
    [id |-> id, form_id |-> form_id, session_id |-> session_id,
     status |-> "in_progress", current_page_id |-> NoId, completed_at |-> FALSE]

\* variant: the pointer of every session is moved
SetPointer_EveryRow(tsubmissions, id, page_id) ==
    [i \in 1..Len(tsubmissions) |->
        [tsubmissions[i] EXCEPT !.current_page_id = page_id]]

\* the table with one column of the row `id` replaced
SetPointer(tsubmissions, id, page_id) ==
    [i \in 1..Len(tsubmissions) |->
        IF tsubmissions[i].id = id
        THEN [tsubmissions[i] EXCEPT !.current_page_id = page_id]
        ELSE tsubmissions[i]]

\* variant: a pass that is not complete writes the status back to in_progress
MarkComplete_ResettingStatus(tsubmissions, id, is_complete) ==
    [i \in 1..Len(tsubmissions) |->
        IF tsubmissions[i].id = id
        THEN IF is_complete
             THEN [tsubmissions[i] EXCEPT !.status = "completed", !.completed_at = TRUE]
             ELSE [tsubmissions[i] EXCEPT !.status = "in_progress"]
        ELSE tsubmissions[i]]

\* variant: completion writes the status without the timestamp
MarkComplete_WithoutTimestamp(tsubmissions, id, is_complete) ==
    [i \in 1..Len(tsubmissions) |->
        IF tsubmissions[i].id = id /\ is_complete
        THEN [tsubmissions[i] EXCEPT !.status = "completed"]
        ELSE tsubmissions[i]]

\* `if is_complete: status = "completed"; completed_at = now`
MarkComplete(tsubmissions, id, is_complete) ==
    [i \in 1..Len(tsubmissions) |->
        IF tsubmissions[i].id = id /\ is_complete
        THEN [tsubmissions[i] EXCEPT !.status = "completed", !.completed_at = TRUE]
        ELSE tsubmissions[i]]

\* variant: the reset looks at the merged answers instead of the stored ones
ResetPointer_OnMergedEmpty(tsubmissions, id, existing_answers, in_flight) ==
    IF DOMAIN existing_answers = {} /\ DOMAIN in_flight = {}
    THEN SetPointer(tsubmissions, id, NoId)
    ELSE tsubmissions

\* an existing submission without stored answers is sent back to the first page
ResetPointer(tsubmissions, id, existing_answers, in_flight) ==
    IF DOMAIN existing_answers = {}
    THEN SetPointer(tsubmissions, id, NoId)
    ELSE tsubmissions

\* variant: the stored answers override the in-flight ones
MergeAnswers_StoredFirst(db_answers, in_flight) ==
    IF DOMAIN in_flight # {} THEN Merge(in_flight, db_answers) ELSE db_answers

\* the answers of the pass: the stored ones, overridden by the in-flight ones
MergeAnswers(db_answers, in_flight) ==
    IF DOMAIN in_flight # {} THEN Merge(db_answers, in_flight) ELSE db_answers

\* the page of the stored pointer when it is a page of the form, else the page
\* flagged is_first, else the page of lowest order (AbsentRow for no page)
SelectPage(tpages, form_id, is_new_submission, stored_pointer) ==
    Let(IF ~is_new_submission /\ stored_pointer # NoId
        THEN First(SelectSeq(tpages, LAMBDA p :
                      p.id = stored_pointer /\ p.form_id = form_id), AbsentRow)
        ELSE AbsentRow, LAMBDA pointer_page :
    Let(First(SelectSeq(tpages, LAMBDA p : p.form_id = form_id /\ p.is_first), AbsentRow),
        LAMBDA flagged :
        IF pointer_page.id # NoId THEN pointer_page
        ELSE IF flagged.id # NoId THEN flagged
        ELSE First(SortedBy(SelectSeq(tpages, LAMBDA p : p.form_id = form_id),
                            LAMBDA p, q : p.order < q.order), AbsentRow)))

\* variant: the advance does not look at whether in-flight answers were passed
ShouldAdvance_IgnoringInFlight(next_page_id, is_new_submission, page_fields, db_answers, original_current_answers_passed) ==
    LET has_db_answers ==
            \E i \in 1..Len(page_fields) :
                /\ page_fields[i].name \in DOMAIN db_answers
                /\ HasAnswer(db_answers[page_fields[i].name])
    IN  /\ next_page_id # NoId
        /\ ~is_new_submission
        /\ has_db_answers

\* variant: the advance does not require a stored answer on the page
ShouldAdvance_WithoutStoredAnswers(next_page_id, is_new_submission, page_fields, db_answers, original_current_answers_passed) ==
    /\ next_page_id # NoId
    /\ ~is_new_submission
    /\ ~original_current_answers_passed

\* should_advance
ShouldAdvance(next_page_id, is_new_submission, page_fields, db_answers, original_current_answers_passed) ==
    LET has_db_answers ==
            \E i \in 1..Len(page_fields) :
                /\ page_fields[i].name \in DOMAIN db_answers
                /\ HasAnswer(db_answers[page_fields[i].name])
    IN  /\ next_page_id # NoId
        /\ ~is_new_submission
        /\ has_db_answers
        /\ ~original_current_answers_passed

\* variant: the pointer is not brought to the rendered page
UpdatePointer_Skipped(tsubmissions, id, page_id) == tsubmissions

\* `if not current_page_id or current_page_id != page_id: current_page_id = page_id`
UpdatePointer(tsubmissions, id, page_id) ==
    Let(SubmissionById(tsubmissions, id).current_page_id, LAMBDA current_page_id :
        IF current_page_id = NoId \/ current_page_id # page_id
        THEN SetPointer(tsubmissions, id, page_id)
        ELSE tsubmissions)

\* render_form: the tables after the call and the record of the call
render_form(form_id, session_id, in_flight) ==
    Let([op |-> "render_form", form_id |-> form_id, session_id |-> session_id,
         in_flight |-> in_flight], LAMBDA call :
    Let(SelectSeq(submissions, LAMBDA s :
            s.session_id = session_id /\ s.form_id = form_id), LAMBDA matching :
    Let(matching = <<>>, LAMBDA is_new_submission :
    Let(IF is_new_submission THEN NextId(submissions) ELSE matching[1].id,
        LAMBDA submission_id :
    Let(IF is_new_submission
        THEN Append(submissions, NewSubmission(submission_id, form_id, session_id))
        ELSE ResetPointer(submissions, submission_id,
                          get_current_answers(submissions, responses, fields, session_id),
                          in_flight), LAMBDA subs1 :
    Let(get_current_answers(subs1, responses, fields, session_id), LAMBDA db_answers :
    Let(MergeAnswers(db_answers, in_flight), LAMBDA current_answers :
    Let(SelectPage(pages, form_id, is_new_submission,
                   SubmissionById(subs1, submission_id).current_page_id), LAMBDA selected :
      IF form_id \notin forms
      THEN [submissions |-> submissions,
            last |-> [call |-> call, ok |-> FALSE, error |-> "Form not found"]]
      ELSE IF selected.id = NoId
      THEN [submissions |-> subs1,
            last |-> [call |-> call, ok |-> FALSE,
                      error |-> "No pages found for this form"]]
      ELSE
    Let(ConditionEvaluationAnswers(pages, fields, form_id, selected.id, current_answers),
        LAMBDA condition_evaluation_answers :
    Let(RenderPass(pages, fields, conditions, nav_rules, form_id, selected,
                   condition_evaluation_answers, Merge(db_answers, current_answers),
                   current_answers, 0), LAMBDA pass1 :
    Let(ShouldAdvance(pass1.next_page_id, is_new_submission,
                      FieldsOfPage(fields, selected.id), db_answers,
                      DOMAIN in_flight # {}), LAMBDA should_advance :
    Let(IF should_advance
        THEN First(SelectSeq(pages, LAMBDA p :
                      p.id = pass1.next_page_id /\ p.form_id = form_id), AbsentRow)
        ELSE AbsentRow, LAMBDA next_page :
    Let(IF next_page.id # NoId THEN next_page ELSE selected, LAMBDA current_page :
    Let(IF next_page.id # NoId
        THEN RenderPass(pages, fields, conditions, nav_rules, form_id, next_page,
                        condition_evaluation_answers, db_answers, db_answers, 0)
        ELSE pass1, LAMBDA result :
      [submissions |->
          MarkComplete(
              UpdatePointer(IF should_advance
                            THEN SetPointer(subs1, submission_id, pass1.next_page_id)
                            ELSE subs1,
                            submission_id, current_page.id),
              submission_id, result.is_complete),
       last |-> [call |-> call, ok |-> TRUE,
                 submission_id |-> submission_id,
                 is_new_submission |-> is_new_submission,
                 db_answers |-> db_answers,
                 current_answers |-> current_answers,
                 condition_evaluation_answers |-> condition_evaluation_answers,
                 navigation_answers |-> IF next_page.id # NoId THEN db_answers
                                        ELSE Merge(db_answers, current_answers),
                 selected_page_id |-> selected.id,
                 resolved_next_page_id |-> pass1.next_page_id,
                 should_advance |-> should_advance,
                 response |-> result]]))))))))))))))

\* render_page_for_submission: the tables after the call and the record of the call
render_page_for_submission(submission_id, page_id) ==
    Let([op |-> "render_page_for_submission", submission_id |-> submission_id,
         page_id |-> page_id], LAMBDA call :
    Let(SubmissionById(submissions, submission_id), LAMBDA submission :
      IF submission.id = NoId
      THEN [submissions |-> submissions,
            last |-> [call |-> call, ok |-> FALSE, error |-> "Submission not found"]]
      ELSE IF submission.form_id \notin forms
      THEN [submissions |-> submissions,
            last |-> [call |-> call, ok |-> FALSE, error |-> "Form not found"]]
      ELSE
    Let(First(SelectSeq(pages, LAMBDA p :
                 p.id = page_id /\ p.form_id = submission.form_id), AbsentRow),
        LAMBDA page :
      IF page.id = NoId
      THEN [submissions |-> submissions,
            last |-> [call |-> call, ok |-> FALSE, error |-> "Page not found for form"]]
      ELSE
    Let(get_answers_by_submission_id(responses, fields, submission_id), LAMBDA db_answers :
    Let(ConditionEvaluationAnswers(pages, fields, submission.form_id, page.id, db_answers),
        LAMBDA condition_evaluation_answers :
      [submissions |->
          IF submission.current_page_id # page.id
          THEN SetPointer(submissions, submission_id, page.id)
          ELSE submissions,
       last |-> [call |-> call, ok |-> TRUE,
                 submission_id |-> submission_id,
                 db_answers |-> db_answers,
                 condition_evaluation_answers |-> condition_evaluation_answers,
                 response |-> RenderPass(pages, fields, conditions, nav_rules,
                                         submission.form_id, page,
                                         condition_evaluation_answers, db_answers,
                                         db_answers, -1)]])))))

(***************************************************************************)
(* SubmissionService                                                       *)
(***************************************************************************)
\* ",".join(str(v) for v in value) on a list of strs
RECURSIVE JoinComma(_)
JoinComma(elems) ==
    IF elems = <<>> THEN <<>>
    ELSE IF Tail(elems) = <<>> THEN Head(elems)
    ELSE Head(elems) \o <<",">> \o JoinComma(Tail(elems))

\* value_str: the text stored for a submitted value (None stays None)
ValueStr(value) ==
    IF value.k = "list" THEN Str(JoinComma(value.v)) ELSE value

\* the row that the get-or-create query of submit_answer returns
FindResponse(tresponses, submission_id, field_id) ==
    First(SelectSeq(tresponses, LAMBDA r :
              r.submission_id = submission_id /\ r.field_id = field_id), AbsentRow)

\* variant: the answer is inserted without looking for an existing row
WriteResponse_AlwaysInsert(tresponses, existing_id, submission_id, field_id, value_str) ==
    Append(tresponses, [id |-> NextId(tresponses), submission_id |-> submission_id,
                        field_id |-> field_id, value |-> value_str])

\* variant: the value is written to every answer of the session
WriteResponse_EveryRow(tresponses, existing_id, submission_id, field_id, value_str) ==
    IF existing_id # NoId
    THEN [i \in 1..Len(tresponses) |->
             IF tresponses[i].submission_id = submission_id
             THEN [tresponses[i] EXCEPT !.value = value_str]
             ELSE tresponses[i]]
    ELSE Append(tresponses, [id |-> NextId(tresponses), submission_id |-> submission_id,
                             field_id |-> field_id, value |-> value_str])

\* the write of submit_answer: the row found by the query is updated, and a
\* new row is inserted when the query found none
WriteResponse(tresponses, existing_id, submission_id, field_id, value_str) ==
    IF existing_id # NoId
    THEN [i \in 1..Len(tresponses) |->
             IF tresponses[i].id = existing_id
             THEN [tresponses[i] EXCEPT !.value = value_str]
             ELSE tresponses[i]]
    ELSE Append(tresponses, [id |-> NextId(tresponses), submission_id |-> submission_id,
                             field_id |-> field_id, value |-> value_str])

\* submit_answer: the field_responses table after the call and the record of the call
submit_answer(session_id, field_id, value) ==
    Let([op |-> "submit_answer", session_id |-> session_id, field_id |-> field_id,
         value |-> value], LAMBDA call :
    Let(First(SelectSeq(submissions, LAMBDA s : s.session_id = session_id), AbsentRow),
        LAMBDA submission :
      IF submission.id = NoId
      THEN [responses |-> responses,
            last |-> [call |-> call, ok |-> FALSE, error |-> "Submission not found"]]
      ELSE IF FieldById(fields, field_id).id = NoId
      THEN [responses |-> responses,
            last |-> [call |-> call, ok |-> FALSE, error |-> "Field not found"]]
      ELSE [responses |->
                WriteResponse(responses,
                              FindResponse(responses, submission.id, field_id).id,
                              submission.id, field_id, ValueStr(value)),
            last |-> [call |-> call, ok |-> TRUE,
                      submission_id |-> submission.id,
                      updated |-> FindResponse(responses, submission.id, field_id).id
                                     # NoId,
                      response |-> [success |-> TRUE, next_page_id |-> NoId,
                                    is_complete |-> FALSE]]]))

\* complete_submission: the submissions table after the call and the returned flag
complete_submission(session_id) ==
    Let([op |-> "complete_submission", session_id |-> session_id], LAMBDA call :
    Let(First(SelectSeq(submissions, LAMBDA s : s.session_id = session_id), AbsentRow),
        LAMBDA submission :
      IF submission.id = NoId
      THEN [submissions |-> submissions,
            last |-> [call |-> call, ok |-> FALSE, error |-> "Submission not found"]]
      ELSE [submissions |->
                [i \in 1..Len(submissions) |->
                    IF submissions[i].id = submission.id
                    THEN [submissions[i] EXCEPT !.status = "completed",
                                                !.completed_at = TRUE]
                    ELSE submissions[i]],
            last |-> [call |-> call, ok |-> TRUE, submission_id |-> submission.id]]))

(***************************************************************************)
(* Form graphs and inputs of the session state machine                     *)
(***************************************************************************)
\* the most rows the submissions table holds
MaxSubmissions == 1

A == <<"a">>

B == <<"b">>

NewField(id, page_id, name) ==
    [id |-> id, page_id |-> page_id, name |-> name, order |-> 0,
     is_required |-> FALSE, is_visible |-> TRUE, default_value |-> NULL]

NewPage(id, form_id, order, is_first) ==
    [id |-> id, form_id |-> form_id, order |-> order, is_first |-> is_first]

NewRule(id, page_id, source_field_id, operator, value, target_page_id, is_default) ==
    [id |-> id, page_id |-> page_id, source_field_id |-> source_field_id,
     operator |-> operator, value |-> value, target_page_id |-> target_page_id,
     is_default |-> is_default]

NewCondition(id, source_field_id, target_field_id, operator, value, action) ==
    [id |-> id, source_field_id |-> source_field_id, target_field_id |-> target_field_id,
     operator |-> operator, value |-> value, action |-> action]

\* a single-page form without navigation rules
GraphSingle ==
    [forms |-> {1},
     pages |-> <<NewPage(1, 1, 0, TRUE)>>,
     fields |-> <<NewField(1, 1, "f1")>>,
     conditions |-> <<>>,
     nav_rules |-> <<>>]

\* a three-page form whose total order is page 1, page 3, page 2: page 1 has
\* two conditional rules and a default rule (stored first), page 3 has one
\* conditional rule and no default, page 2 has no rule
GraphNav ==
    [forms |-> {1},
     pages |-> <<NewPage(1, 1, 5, TRUE), NewPage(2, 1, 3, FALSE), NewPage(3, 1, 1, FALSE)>>,
     fields |-> <<NewField(1, 1, "f1"), NewField(2, 2, "f2"), NewField(3, 3, "f3")>>,
     conditions |-> <<NewCondition(1, 1, 2, "equals", A, "show"),
                      NewCondition(2, 1, 3, "is_not_empty", <<>>, "require")>>,
     nav_rules |-> <<NewRule(1, 1, NoId, "equals", <<>>, 3, TRUE),
                     NewRule(2, 1, 1, "equals", A, 2, FALSE),
                     NewRule(3, 1, 1, "equals", B, 3, FALSE),
                     NewRule(4, 3, 3, "equals", A, 1, FALSE)>>]

Graphs == {GraphSingle, GraphNav}

\* form ids used by callers: form 1, and form 9 that only the two-form graph has
FormIds == {1, 9}

SessionIds == {"s1"}

PageIds == {1, 2, 3}

\* the (field id, value) pairs that callers submit
SubmitChoices ==
    {<<1, NULL>>, <<1, EmptyStr>>, <<1, Str(A)>>, <<1, Str(B)>>,
     <<2, Str(B)>>, <<3, Str(A)>>, <<3, Str(B)>>, <<1, List(<<A, B>>)>>}

InFlightChoices ==
    {EmptyDict,
     [n \in {"f1"} |-> Str(A)],
     [n \in {"f1"} |-> EmptyStr],
     [n \in {"f2"} |-> Str(B)],
     [n \in {"f3"} |-> Str(A)]}

(***************************************************************************)
(* The session state machine                                               *)
(***************************************************************************)
Init ==
    /\ \E g \in Graphs :
         /\ forms = g.forms
         /\ pages = g.pages
         /\ fields = g.fields
         /\ conditions = g.conditions
         /\ nav_rules = g.nav_rules
    /\ submissions = <<>>
    /\ responses = <<>>
    /\ last = [call |-> [op |-> "init"], ok |-> TRUE]
    /\ requests = <<>>

Graph == <<forms, pages, fields, conditions, nav_rules>>

\* create_submission, while the table holds fewer than `bound` rows
CreateSubmissionUpTo(bound, form_id, session_id) ==
    /\ Len(submissions) < bound
    /\ submissions' = Append(submissions,
                             NewSubmission(NextId(submissions), form_id, session_id))
    /\ last' = [call |-> [op |-> "create_submission", form_id |-> form_id,
                          session_id |-> session_id],
                ok |-> TRUE, submission_id |-> NextId(submissions)]
    /\ UNCHANGED <<Graph, requests, responses>>

CreateSubmission(form_id, session_id) ==
    CreateSubmissionUpTo(MaxSubmissions, form_id, session_id)

RenderForm(form_id, session_id, in_flight) ==
    \E r \in {render_form(form_id, session_id, in_flight)} :
        /\ Len(r.submissions) <= MaxSubmissions \/ Len(r.submissions) = Len(submissions)
        /\ submissions' = r.submissions
        /\ last' = r.last @@ [repeats |-> last.ok /\ r.last.ok /\ last.call = r.last.call]
        /\ UNCHANGED <<Graph, requests, responses>>

RenderPageForSubmission(submission_id, page_id) ==
    \E r \in {render_page_for_submission(submission_id, page_id)} :
        /\ submissions' = r.submissions
        /\ last' = r.last
        /\ UNCHANGED <<Graph, requests, responses>>

SubmitAnswer(session_id, field_id, value) ==
    \E r \in {submit_answer(session_id, field_id, value)} :
        /\ responses' = r.responses
        /\ last' = r.last
        /\ UNCHANGED <<Graph, requests, submissions>>

CompleteSubmission(session_id) ==
    \E r \in {complete_submission(session_id)} :
        /\ submissions' = r.submissions
        /\ last' = r.last
        /\ UNCHANGED <<Graph, requests, responses>>

Next ==
    \/ \E form_id \in forms, session_id \in SessionIds :
          CreateSubmission(form_id, session_id)
    \/ \E form_id \in FormIds, session_id \in SessionIds, in_flight \in InFlightChoices :
          RenderForm(form_id, session_id, in_flight)
    \/ \E submission_id \in 1..MaxSubmissions, page_id \in PageIds :
          RenderPageForSubmission(submission_id, page_id)
    \/ \E session_id \in SessionIds, choice \in SubmitChoices :
          SubmitAnswer(session_id, choice[1], choice[2])
    \/ \E session_id \in SessionIds : CompleteSubmission(session_id)

Spec == Init /\ [][Next]_vars

(***************************************************************************)
(* The session state machine on a form with default values and rules       *)
(* without target page                                                     *)
(***************************************************************************)
\* a three-page form in page order 1, 2, 3: field f2 has the default "b";
\* page 1 has a conditional rule without target, page 2 a default rule
\* without target; f1 is hidden when f3 equals the empty string
GraphFields ==
    [forms |-> {1},
     pages |-> <<NewPage(1, 1, 0, TRUE), NewPage(2, 1, 1, FALSE), NewPage(3, 1, 2, FALSE)>>,
     fields |-> <<NewField(1, 1, "f1"),
                  [NewField(2, 2, "f2") EXCEPT !.default_value = Str(B)],
                  NewField(3, 3, "f3")>>,
     conditions |-> <<NewCondition(1, 3, 1, "equals", <<>>, "hide")>>,
     nav_rules |-> <<NewRule(1, 1, 1, "equals", A, NoId, FALSE),
                     NewRule(2, 2, NoId, "equals", <<>>, NoId, TRUE)>>]

InitFields ==
    /\ forms = GraphFields.forms
    /\ pages = GraphFields.pages
    /\ fields = GraphFields.fields
    /\ conditions = GraphFields.conditions
    /\ nav_rules = GraphFields.nav_rules
    /\ submissions = <<>>
    /\ responses = <<>>
    /\ last = [call |-> [op |-> "init"], ok |-> TRUE]
    /\ requests = <<>>

SpecFields == InitFields /\ [][Next]_vars

(***************************************************************************)
(* The session state machine on forms that an author has left unfinished:  *)
(* a form without pages, and a form whose first page has no field          *)
(***************************************************************************)
GraphNoPages ==
    [forms |-> {1},
     pages |-> <<>>,
     fields |-> <<>>,
     conditions |-> <<>>,
     nav_rules |-> <<>>]

\* page 1 (first) has no field, page 2 has the field f2
GraphEmptyPage ==
    [forms |-> {1},
     pages |-> <<NewPage(1, 1, 0, TRUE), NewPage(2, 1, 1, FALSE)>>,
     fields |-> <<NewField(2, 2, "f2")>>,
     conditions |-> <<>>,
     nav_rules |-> <<>>]

InitEmpty ==
    /\ \E g \in {GraphNoPages, GraphEmptyPage} :
         /\ forms = g.forms
         /\ pages = g.pages
         /\ fields = g.fields
         /\ conditions = g.conditions
         /\ nav_rules = g.nav_rules
    /\ submissions = <<>>
    /\ responses = <<>>
    /\ last = [call |-> [op |-> "init"], ok |-> TRUE]
    /\ requests = <<>>

SpecEmpty == InitEmpty /\ [][Next]_vars

(***************************************************************************)
(* The session state machine with one session identifier used under two    *)
(* forms: the respondent "s1" has a session of form 1 and a session of     *)
(* form 9, and both forms have a field named f1                            *)
(***************************************************************************)
\* form 1 has page 1 (field f1) and page 2 (field f2); form 9 has page 3
\* with its own field named f1
GraphTwoForms ==
    [forms |-> {1, 9},
     pages |-> <<NewPage(1, 1, 0, TRUE), NewPage(2, 1, 1, FALSE), NewPage(3, 9, 0, TRUE)>>,
     fields |-> <<NewField(1, 1, "f1"), NewField(2, 2, "f2"), NewField(3, 3, "f1")>>,
     conditions |-> <<>>,
     nav_rules |-> <<>>]

\* both sessions as create_submission leaves them
InitSessions ==
    /\ forms = GraphTwoForms.forms
    /\ pages = GraphTwoForms.pages
    /\ fields = GraphTwoForms.fields
    /\ conditions = GraphTwoForms.conditions
    /\ nav_rules = GraphTwoForms.nav_rules
    /\ submissions = <<NewSubmission(1, 1, "s1"), NewSubmission(2, 9, "s1")>>
    /\ responses = <<>>
    /\ last = [call |-> [op |-> "init"], ok |-> TRUE]
    /\ requests = <<>>

\* the (field id, value) pairs that the respondent submits
SessionSubmitChoices ==
    {<<1, EmptyStr>>, <<1, Str(A)>>, <<2, Str(B)>>, <<3, Str(B)>>}

NextSessions ==
    \/ \E form_id \in FormIds, session_id \in SessionIds, in_flight \in InFlightChoices :
          RenderForm(form_id, session_id, in_flight)
    \/ \E submission_id \in 1..Len(submissions), page_id \in PageIds :
          RenderPageForSubmission(submission_id, page_id)
    \/ \E session_id \in SessionIds, choice \in SessionSubmitChoices :
          SubmitAnswer(session_id, choice[1], choice[2])
    \/ \E session_id \in SessionIds : CompleteSubmission(session_id)

SpecSessions == InitSessions /\ [][NextSessions]_vars

(***************************************************************************)
(* The navigation resolver on its own: determine_next_page applied to the  *)
(* rule lists of one page                                                  *)
(***************************************************************************)
\* the most rules the page has
MaxRules == 3

\* the rules an author can store on page 1: (source field, operator, value,
\* target page, is_default)
RuleChoices ==
    {<<NoId, "equals", <<>>, 3, TRUE>>,
     <<NoId, "equals", <<>>, 2, TRUE>>,
     <<1, "equals", A, 2, FALSE>>,
     <<1, "equals", B, 3, FALSE>>,
     <<1, "is_not_empty", <<>>, 1, FALSE>>,
     <<NoId, "equals", <<>>, 2, FALSE>>,
     <<1, "equals", A, NoId, FALSE>>}

RuleLists == UNION {[1..n -> RuleChoices] : n \in 0..MaxRules}

RulesFrom(choices) ==
    [i \in 1..Len(choices) |->
        NewRule(i, 1, choices[i][1], choices[i][2], choices[i][3], choices[i][4],
                choices[i][5])]

\* the answers handed to the resolver
NavAnswerChoices ==
    {EmptyDict,
     [n \in {"f1"} |-> Str(A)],
     [n \in {"f1"} |-> Str(<<"B">>)],
     [n \in {"f1"} |-> EmptyStr],
     [n \in {"f1"} |-> NULL]}

InitNav ==
    /\ forms = GraphNav.forms
    /\ pages = GraphNav.pages
    /\ fields = GraphNav.fields
    /\ conditions = <<>>
    /\ \E choices \in RuleLists : nav_rules = RulesFrom(choices)
    /\ submissions = <<>>
    /\ responses = <<>>
    /\ last = [call |-> [op |-> "init"], ok |-> TRUE]
    /\ requests = <<>>

DetermineNextPage(answers) ==
    /\ last' = [call |-> [op |-> "determine_next_page", answers |-> answers],
                ok |-> TRUE,
                result |-> determine_next_page(nav_rules, fields, answers)]
    /\ UNCHANGED <<Graph, requests, submissions, responses>>

NextNav == \E answers \in NavAnswerChoices : DetermineNextPage(answers)

SpecNav == InitNav /\ [][NextNav]_vars

(***************************************************************************)
(* The condition evaluator on its own: evaluate_operator applied to an     *)
(* operator, an observed value and a literal                               *)
(***************************************************************************)
Operators ==
    {"equals", "not_equals", "greater_than", "less_than", "greater_equal", "less_equal",
     "contains", "not_contains", "in", "not_in", "is_empty", "is_not_empty"}

\* the observed values handed to the evaluator
FieldValueChoices ==
    {NULL, EmptyStr, Str(A), Str(<<"B">>), Str(<<"5">>), Str(<<" ">>),
     List(<<>>), List(<<A>>), List(<<A, B>>), List(<< <<"A">> >>)}

\* the literals of the conditions
ConditionValueChoices ==
    {<<>>, A, B, <<"a", ",", " ", "b">>, <<"5">>, <<"3">>, <<"[", "]">>,
     <<"[", "'", "a", "'", "]">>}

\* the literals handed to the evaluator: a str, or None for an absent literal
LiteralChoices == {NULL} \cup {Str(c) : c \in ConditionValueChoices}

\* `condition_value.split(",")` of the operators in and not_in, reached with
\* an observed value that is not None, raises AttributeError on a None literal
SplitRaises(operator, field_value, literal) ==
    /\ operator \in {"in", "not_in"}
    /\ field_value.k # "none"
    /\ literal.k = "none"

\* evaluate_operator called with an Optional literal: the value returned, or
\* the exception raised.  None is read as "" by `if condition_value else ""`
\* and fails float() with the TypeError that the numeric operators catch.
EvaluateOutcome(operator, field_value, literal) ==
    IF SplitRaises(operator, field_value, literal)
    THEN [ok |-> FALSE, error |-> "AttributeError"]
    ELSE [ok |-> TRUE, result |-> evaluate_operator(operator, field_value, literal.v)]

InitOperator ==
    /\ forms = GraphNav.forms
    /\ pages = GraphNav.pages
    /\ fields = GraphNav.fields
    /\ conditions = <<>>
    /\ nav_rules = <<>>
    /\ submissions = <<>>
    /\ responses = <<>>
    /\ last = [call |-> [op |-> "init"], ok |-> TRUE]
    /\ requests = <<>>

EvaluateOperator(operator, field_value, literal) ==
    /\ last' = [call |-> [op |-> "evaluate_operator", operator |-> operator,
                          field_value |-> field_value,
                          literal |-> literal,
                          condition_value |-> literal.v]]
                  @@ EvaluateOutcome(operator, field_value, literal)
    /\ UNCHANGED <<Graph, requests, submissions, responses>>

NextOperator ==
    \E operator \in Operators, field_value \in FieldValueChoices,
       literal \in LiteralChoices :
          EvaluateOperator(operator, field_value, literal)

SpecOperator == InitOperator /\ [][NextOperator]_vars

(***************************************************************************)
(* The field-state resolver on its own: evaluate_field_conditions applied  *)
(* to the condition lists of one target field                              *)
(***************************************************************************)
\* the most conditions the target field has
MaxConditions == 2

Actions == {"show", "hide", "enable", "disable", "require", "skip"}

\* the conditions an author can store on field 2 with source field 1:
\* (operator, value, action)
ConditionChoices ==
    {<<"equals", A, action>> : action \in Actions}
        \cup {<<"is_empty", <<>>, action>> : action \in Actions}

ConditionLists == UNION {[1..n -> ConditionChoices] : n \in 0..MaxConditions}

ConditionsFrom(choices) ==
    [i \in 1..Len(choices) |->
        NewCondition(i, 1, 2, choices[i][1], choices[i][2], choices[i][3])]

InitResolver ==
    /\ forms = GraphNav.forms
    /\ pages = GraphNav.pages
    /\ fields = GraphNav.fields
    /\ \E choices \in ConditionLists : conditions = ConditionsFrom(choices)
    /\ nav_rules = <<>>
    /\ submissions = <<>>
    /\ responses = <<>>
    /\ last = [call |-> [op |-> "init"], ok |-> TRUE]
    /\ requests = <<>>

EvaluateFieldConditions(answers) ==
    /\ last' = [call |-> [op |-> "evaluate_field_conditions", answers |-> answers],
                ok |-> TRUE,
                result |-> evaluate_field_conditions(conditions, fields, answers)]
    /\ UNCHANGED <<Graph, requests, submissions, responses>>

NextResolver == \E answers \in NavAnswerChoices : EvaluateFieldConditions(answers)

SpecResolver == InitResolver /\ [][NextResolver]_vars

(***************************************************************************)
(* Concurrent submit_answer requests.  Each request runs in its own        *)
(* database session on a worker thread: it first runs its queries (the     *)
(* session, the field, the existing answer row), then writes and commits.  *)
(* Requests interleave between the two steps.                              *)
(***************************************************************************)
\* the most submit_answer requests in flight
MaxRequests == 2

\* the values of the concurrent requests
RaceValues == {NULL, Str(A), Str(B)}

InitRace ==
    /\ forms = GraphSingle.forms
    /\ pages = GraphSingle.pages
    /\ fields = GraphSingle.fields
    /\ conditions = GraphSingle.conditions
    /\ nav_rules = GraphSingle.nav_rules
    /\ submissions = <<NewSubmission(1, 1, "s1")>>
    /\ \E stored \in {<<>>, <<EmptyStr>>} :
          responses = [i \in 1..Len(stored) |->
                          [id |-> i, submission_id |-> 1, field_id |-> 1,
                           value |-> stored[i]]]
    /\ last = [call |-> [op |-> "init"], ok |-> TRUE]
    /\ requests = <<>>

\* a request arrives at the router
ReceiveSubmit(session_id, field_id, value) ==
    /\ Len(requests) < MaxRequests
    /\ requests' = Append(requests,
                          [session_id |-> session_id, field_id |-> field_id,
                           value |-> value, pc |-> "received",
                           submission_id |-> NoId, existing_id |-> NoId])
    /\ last' = [call |-> [op |-> "receive_submit", session_id |-> session_id,
                          field_id |-> field_id, value |-> value], ok |-> TRUE]
    /\ UNCHANGED <<Graph, submissions, responses>>

\* the queries of submit_answer: the session, the field, the existing row
QuerySubmit(n) ==
    /\ requests[n].pc = "received"
    /\ \E submission \in {First(SelectSeq(submissions, LAMBDA s :
                                   s.session_id = requests[n].session_id), AbsentRow)} :
          requests' =
             [requests EXCEPT ![n] =
                 IF submission.id = NoId
                       \/ FieldById(fields, requests[n].field_id).id = NoId
                 THEN [@ EXCEPT !.pc = "failed"]
                 ELSE [@ EXCEPT !.pc = "queried",
                                !.submission_id = submission.id,
                                !.existing_id =
                                    FindResponse(responses, submission.id,
                                                 requests[n].field_id).id]]
    /\ last' = [call |-> [op |-> "query_submit", request |-> n], ok |-> TRUE]
    /\ UNCHANGED <<Graph, submissions, responses>>

\* the write and the commit of submit_answer, with the row that its query found
CommitSubmit(n) ==
    /\ requests[n].pc = "queried"
    /\ responses' = WriteResponse(responses, requests[n].existing_id,
                                  requests[n].submission_id, requests[n].field_id,
                                  ValueStr(requests[n].value))
    /\ requests' = [requests EXCEPT ![n].pc = "done"]
    /\ last' = [call |-> [op |-> "commit_submit", request |-> n], ok |-> TRUE]
    /\ UNCHANGED <<Graph, submissions>>

NextRace ==
    \/ \E session_id \in SessionIds \cup {"s2"}, value \in RaceValues :
          ReceiveSubmit(session_id, 1, value)
    \/ \E n \in 1..Len(requests) : QuerySubmit(n)
    \/ \E n \in 1..Len(requests) : CommitSubmit(n)

SpecRace == InitRace /\ [][NextRace]_vars

(***************************************************************************)
(* FormBuilderService: the page operations of the builder.  The is_first   *)
(* column is nullable; every query and truth test of the code reads NULL   *)
(* as not true, and the table holds it as FALSE.                           *)
(***************************************************************************)
\* the id that the database gives a new row: one more than the largest id
NewRowId(rows) == IF rows = <<>> THEN 1 ELSE rows[Len(rows)].id + 1

\* the rows of the pages of a form, in table order
PagesOfForm(tpages, form_id) == SelectSeq(tpages, LAMBDA p : p.form_id = form_id)

\* the table with is_first taken from the first pages of the form other than except_id
Unmark(tpages, form_id, except_id) ==
    [i \in 1..Len(tpages) |->
        IF tpages[i].form_id = form_id /\ tpages[i].is_first /\ tpages[i].id # except_id
        THEN [tpages[i] EXCEPT !.is_first = FALSE]
        ELSE tpages[i]]

\* the table with the is_first column of the row `id` replaced
SetFirst(tpages, id, is_first) ==
    [i \in 1..Len(tpages) |->
        IF tpages[i].id = id THEN [tpages[i] EXCEPT !.is_first = is_first]
        ELSE tpages[i]]

\* variant: the pages flagged first are left as they are
create_page_KeepingFirst(tpages, form_id, order, is_first) ==
    Append(tpages, NewPage(NewRowId(tpages), form_id, order,
                           is_first \/ PagesOfForm(tpages, form_id) = <<>>))

\* create_page: the first page of a form is forced to be first; a page
\* created as first takes the flag from the others
create_page(tpages, form_id, order, is_first) ==
    Let(is_first \/ PagesOfForm(tpages, form_id) = <<>>, LAMBDA first :
        Append(IF first THEN Unmark(tpages, form_id, NoId) ELSE tpages,
               NewPage(NewRowId(tpages), form_id, order, first)))

\* min(other_pages, key=lambda p: p.order): the first row of lowest order
MinByOrder(rows) ==
    rows[CHOOSE i \in 1..Len(rows) :
            /\ \A j \in 1..Len(rows) : rows[i].order <= rows[j].order
            /\ \A j \in 1..(i - 1) : rows[j].order > rows[i].order]

\* the `Handle is_first flag` block of update_page: the table after it, and
\* whether is_first stays in update_data
HandleFirst(tpages, page, is_first) ==
    Let(SelectSeq(tpages, LAMBDA p : p.form_id = page.form_id /\ p.id # page.id),
        LAMBDA other_pages :
        IF is_first = "true"
        THEN [pages |-> Unmark(tpages, page.form_id, page.id), keep |-> TRUE]
        ELSE IF is_first = "false" /\ page.is_first
        THEN IF other_pages # <<>>
             THEN [pages |-> SetFirst(tpages, MinByOrder(other_pages).id, TRUE),
                   keep |-> TRUE]
             ELSE [pages |-> tpages, keep |-> FALSE]
        ELSE [pages |-> tpages, keep |-> is_first # "unset"])

\* update_page: is_first is "unset" (not in the request), "null" (JSON null),
\* "true" or "false"; order is given or not.  setattr writes every key of
\* update_data, a null is_first included.
update_page(tpages, page_id, order, is_first) ==
    Let(First(SelectSeq(tpages, LAMBDA p : p.id = page_id), AbsentRow), LAMBDA page :
        IF page.id = NoId THEN tpages
        ELSE
    Let(HandleFirst(tpages, page, is_first), LAMBDA handled :
        [i \in 1..Len(handled.pages) |->
            IF handled.pages[i].id = page_id
            THEN [handled.pages[i] EXCEPT
                     !.is_first = IF handled.keep THEN is_first = "true" ELSE @,
                     !.order = IF order.set THEN order.v ELSE @]
            ELSE handled.pages[i]]))

\* delete_page: when the deleted page was first, the remaining page of
\* lowest order becomes first
delete_page(tpages, page_id) ==
    Let(First(SelectSeq(tpages, LAMBDA p : p.id = page_id), AbsentRow), LAMBDA page :
    Let(SelectSeq(tpages, LAMBDA p : p.id # page_id), LAMBDA kept :
    Let(SortedBy(PagesOfForm(kept, page.form_id), LAMBDA p, q : p.order < q.order),
        LAMBDA remaining_pages :
        IF page.id = NoId THEN tpages
        ELSE IF page.is_first /\ remaining_pages # <<>>
        THEN SetFirst(kept, remaining_pages[1].id, TRUE)
        ELSE kept)))

(***************************************************************************)
(* The builder state machine: pages are created, updated and deleted in    *)
(* two forms                                                               *)
(***************************************************************************)
\* the largest page id the builder gives out
MaxPageId == 3

BuilderForms == {1, 2}

OrderChoices == {0, 1}

\* the order of an update request: absent, or one of the orders
OrderUpdates ==
    {[set |-> FALSE, v |-> 0]} \cup {[set |-> TRUE, v |-> o] : o \in OrderChoices}

FirstUpdates == {"unset", "null", "true", "false"}

InitBuilder ==
    /\ forms = BuilderForms
    /\ pages = <<>>
    /\ fields = <<>>
    /\ conditions = <<>>
    /\ nav_rules = <<>>
    /\ submissions = <<>>
    /\ responses = <<>>
    /\ last = [call |-> [op |-> "init"], ok |-> TRUE]
    /\ requests = <<>>

CreatePage(form_id, order, is_first) ==
    /\ NewRowId(pages) <= MaxPageId
    /\ pages' = create_page(pages, form_id, order, is_first)
    /\ last' = [call |-> [op |-> "create_page", form_id |-> form_id, order |-> order,
                          is_first |-> is_first],
                ok |-> TRUE, page_id |-> NewRowId(pages)]
    /\ UNCHANGED <<forms, fields, conditions, nav_rules, submissions, responses, requests>>

UpdatePage(page_id, order, is_first) ==
    /\ pages' = update_page(pages, page_id, order, is_first)
    /\ last' = [call |-> [op |-> "update_page", page_id |-> page_id, order |-> order,
                          is_first |-> is_first],
                ok |-> IndexOfId(pages, page_id) # 0, page_id |-> page_id]
    /\ UNCHANGED <<forms, fields, conditions, nav_rules, submissions, responses, requests>>

DeletePage(page_id) ==
    /\ pages' = delete_page(pages, page_id)
    /\ last' = [call |-> [op |-> "delete_page", page_id |-> page_id],
                ok |-> IndexOfId(pages, page_id) # 0, page_id |-> page_id]
    /\ UNCHANGED <<forms, fields, conditions, nav_rules, submissions, responses, requests>>

NextBuilder ==
    \/ \E form_id \in BuilderForms, order \in OrderChoices, is_first \in BOOLEAN :
          CreatePage(form_id, order, is_first)
    \/ \E page_id \in 1..MaxPageId, order \in OrderUpdates, is_first \in FirstUpdates :
          UpdatePage(page_id, order, is_first)
    \/ \E page_id \in 1..MaxPageId : DeletePage(page_id)

SpecBuilder == InitBuilder /\ [][NextBuilder]_vars

(***************************************************************************)
(* The session state machine on a graph whose navigation rules are added   *)
(* by the builder while a respondent fills form 1 (the graph of two forms  *)
(* without rules at the start)                                             *)
(***************************************************************************)
\* the most navigation rules the builder adds
MaxCreatedRules == 1

\* create_navigation_rule: the row is stored as given; the foreign keys ask
\* for an existing page, source field and target page, of whatever form
create_navigation_rule(trules, page_id, source_field_id, operator, value, target_page_id, is_default) ==
    Append(trules, NewRule(NewRowId(trules), page_id, source_field_id, operator, value,
                           target_page_id, is_default))

\* the rules that the author adds to page 1: (source field, operator, value,
\* target page, is_default)
RuleRequests ==
    {<<1, "equals", A, 2, FALSE>>,
     <<1, "equals", A, 3, FALSE>>,
     <<NoId, "equals", <<>>, 3, TRUE>>,
     <<NoId, "equals", <<>>, 1, TRUE>>}

InitRules ==
    /\ forms = GraphTwoForms.forms
    /\ pages = GraphTwoForms.pages
    /\ fields = GraphTwoForms.fields
    /\ conditions = GraphTwoForms.conditions
    /\ nav_rules = <<>>
    /\ submissions = <<>>
    /\ responses = <<>>
    /\ last = [call |-> [op |-> "init"], ok |-> TRUE]
    /\ requests = <<>>

CreateNavigationRule(page_id, rule) ==
    /\ Len(nav_rules) < MaxCreatedRules
    /\ IndexOfId(pages, page_id) # 0
    /\ rule[1] = NoId \/ FieldById(fields, rule[1]).id # NoId
    /\ rule[4] = NoId \/ IndexOfId(pages, rule[4]) # 0
    /\ nav_rules' = create_navigation_rule(nav_rules, page_id, rule[1], rule[2], rule[3],
                                           rule[4], rule[5])
    /\ last' = [call |-> [op |-> "create_navigation_rule", page_id |-> page_id,
                          rule |-> rule],
                ok |-> TRUE, rule_id |-> NewRowId(nav_rules)]
    /\ UNCHANGED <<forms, pages, fields, conditions, submissions, responses, requests>>

\* the answers of the respondent of form 1
RulesSubmitChoices == {<<1, Str(A)>>, <<1, Str(B)>>, <<2, Str(B)>>}

RulesInFlightChoices == {EmptyDict, [n \in {"f1"} |-> Str(A)]}

NextRules ==
    \/ \E rule \in RuleRequests : CreateNavigationRule(1, rule)
    \/ \E session_id \in SessionIds, in_flight \in RulesInFlightChoices :
          RenderForm(1, session_id, in_flight)
    \/ \E submission_id \in 1..MaxSubmissions, page_id \in PageIds :
          RenderPageForSubmission(submission_id, page_id)
    \/ \E session_id \in SessionIds, choice \in RulesSubmitChoices :
          SubmitAnswer(session_id, choice[1], choice[2])

SpecRules == InitRules /\ [][NextRules]_vars

(***************************************************************************)
(* The session state machine with repeated session creation: the client   *)
(* calls create_submission more than once, before or after a render has    *)
(* created the session                                                     *)
(***************************************************************************)
\* the most rows that create_submission fills the submissions table to
MaxSessions == 2

CreateInFlightChoices == {EmptyDict, [n \in {"f1"} |-> Str(A)]}

CreateSubmitChoices == {<<1, Str(A)>>, <<1, EmptyStr>>}

InitCreate ==
    /\ forms = GraphSingle.forms
    /\ pages = GraphSingle.pages
    /\ fields = GraphSingle.fields
    /\ conditions = GraphSingle.conditions
    /\ nav_rules = GraphSingle.nav_rules
    /\ submissions = <<>>
    /\ responses = <<>>
    /\ last = [call |-> [op |-> "init"], ok |-> TRUE]
    /\ requests = <<>>

NextCreate ==
    \/ \E form_id \in forms, session_id \in SessionIds :
          CreateSubmissionUpTo(MaxSessions, form_id, session_id)
    \/ \E form_id \in FormIds, session_id \in SessionIds,
          in_flight \in CreateInFlightChoices :
             RenderForm(form_id, session_id, in_flight)
    \/ \E session_id \in SessionIds, choice \in CreateSubmitChoices :
          SubmitAnswer(session_id, choice[1], choice[2])
    \/ \E session_id \in SessionIds : CompleteSubmission(session_id)

SpecCreate == InitCreate /\ [][NextCreate]_vars

(***************************************************************************)
(* The navigation endpoints of the renderer router: previous-page and      *)
(* next-page of a submission, with the path the respondent has walked      *)
(***************************************************************************)
\* db.query(Page).filter(Page.id == submission.current_page_id).first()
PageById(tpages, page_id) ==
    First(SelectSeq(tpages, LAMBDA p : p.id = page_id), AbsentRow)

\* has_answers of a candidate page: a field of the page has a stored answer
\* that is neither None nor ''
PageHasAnswers(tfields, page_id, db_answers) ==
    \E i \in 1..Len(tfields) :
        tfields[i].page_id = page_id /\ HasAnswer(Get(db_answers, tfields[i].name))

\* the loop `for i in range(current_page_index - 1, -1, -1)` and its fall
\* back: the id of the nearest earlier page of the total order that has
\* answers, else the id of the page just before the current one
\* (current_page_index is 0-based and at least 1)
PreviousPageId(sorted_pages, tfields, db_answers, current_page_index) ==
    Let({i \in 1..current_page_index :
            PageHasAnswers(tfields, sorted_pages[i].id, db_answers)}, LAMBDA answered :
        IF answered = {} THEN sorted_pages[current_page_index].id
        ELSE sorted_pages[CHOOSE i \in answered : \A j \in answered : j <= i].id)

\* the checks that both endpoints make before they look at the pages: the
\* refusal, or "" when the submission and its current page are found
NavigationRefusal(submission) ==
    IF submission.id = NoId THEN "Submission not found"
    ELSE IF submission.current_page_id = NoId THEN "Submission has no current page"
    ELSE IF PageById(pages, submission.current_page_id).id = NoId
    THEN "Current page not found"
    ELSE ""

\* get_previous_page_for_submission: the tables after the call and the
\* record of the call
get_previous_page_for_submission(submission_id) ==
    Let([op |-> "get_previous_page_for_submission", submission_id |-> submission_id],
        LAMBDA call :
    Let(SubmissionById(submissions, submission_id), LAMBDA submission :
      IF NavigationRefusal(submission) # ""
      THEN [submissions |-> submissions,
            last |-> [call |-> call, ok |-> FALSE,
                      error |-> NavigationRefusal(submission)]]
      ELSE
    Let(SortedPages(pages, submission.form_id), LAMBDA sorted_pages :
    Let(PageIndex(sorted_pages, submission.current_page_id, -1),
        LAMBDA current_page_index :
      IF current_page_index <= 0
      THEN [submissions |-> submissions,
            last |-> [call |-> call, ok |-> FALSE,
                      error |-> "No previous page available"]]
      ELSE
    Let(PreviousPageId(sorted_pages, fields,
                       get_answers_by_submission_id(responses, fields, submission_id),
                       current_page_index), LAMBDA previous_page_id :
    Let(render_page_for_submission(submission_id, previous_page_id), LAMBDA r :
      [submissions |-> r.submissions,
       last |-> IF r.last.ok
                THEN [call |-> call, ok |-> TRUE,
                      current_page_index |-> current_page_index,
                      previous_page_id |-> previous_page_id,
                      response |-> r.last.response]
                ELSE [call |-> call, ok |-> FALSE, error |-> r.last.error]]))))))

\* get_next_page_for_submission: the tables after the call and the record
\* of the call.  The first render is of the page the pointer is on, so it
\* leaves the pointer where it is; the second render moves it.
get_next_page_for_submission(submission_id) ==
    Let([op |-> "get_next_page_for_submission", submission_id |-> submission_id],
        LAMBDA call :
    Let(SubmissionById(submissions, submission_id), LAMBDA submission :
      IF NavigationRefusal(submission) # ""
      THEN [submissions |-> submissions,
            last |-> [call |-> call, ok |-> FALSE,
                      error |-> NavigationRefusal(submission)]]
      ELSE
    Let(render_page_for_submission(submission_id, submission.current_page_id),
        LAMBDA form_response :
      IF ~form_response.last.ok
      THEN [submissions |-> submissions,
            last |-> [call |-> call, ok |-> FALSE, error |-> form_response.last.error]]
      ELSE IF form_response.last.response.next_page_id = NoId
      THEN [submissions |-> submissions,
            last |-> [call |-> call, ok |-> FALSE, error |-> "No next page available"]]
      ELSE
    Let(render_page_for_submission(submission_id,
                                   form_response.last.response.next_page_id), LAMBDA r :
      [submissions |-> r.submissions,
       last |-> IF r.last.ok
                THEN [call |-> call, ok |-> TRUE, response |-> r.last.response]
                ELSE [call |-> call, ok |-> FALSE, error |-> r.last.error]]))))

\* the longest path that is followed
MaxPath == 4

\* the path after the respondent is shown `page_id` by a forward step
Visit(path, page_id) ==
    IF path # <<>> /\ path[Len(path)] = page_id THEN path ELSE Append(path, page_id)

\* the path after the respondent is shown `page_id` by a step back: back by
\* one page when that is the page before the current one on the path
StepBack(path, page_id) ==
    IF Len(path) >= 2 /\ path[Len(path) - 1] = page_id
    THEN SubSeq(path, 1, Len(path) - 1)
    ELSE Visit(path, page_id)

\* the path after a call: unchanged when the call is refused
PathAfter(record, path) ==
    IF ~record.ok THEN path
    ELSE IF record.call.op = "get_previous_page_for_submission"
    THEN StepBack(path, record.response.current_page.id)
    ELSE Visit(path, record.response.current_page.id)

\* the answers of the respondent
PathSubmitChoices == {<<1, Str(A)>>, <<1, Str(B)>>, <<3, Str(A)>>}

InitPath ==
    /\ \E g \in {GraphNav, GraphFields} :
         /\ forms = g.forms
         /\ pages = g.pages
         /\ fields = g.fields
         /\ conditions = g.conditions
         /\ nav_rules = g.nav_rules
    /\ submissions = <<>>
    /\ responses = <<>>
    /\ last = [call |-> [op |-> "init"], ok |-> TRUE, path |-> <<>>]
    /\ requests = <<>>

\* GET /render/{form_id} without in-flight answers: the respondent opens or
\* reopens the form
OpenForm(form_id, session_id) ==
    \E r \in {render_form(form_id, session_id, EmptyDict)} :
        /\ Len(PathAfter(r.last, last.path)) <= MaxPath
        /\ submissions' = r.submissions
        /\ last' = r.last @@ [path |-> PathAfter(r.last, last.path)]
        /\ UNCHANGED <<Graph, requests, responses>>

PreviousPage(submission_id) ==
    \E r \in {get_previous_page_for_submission(submission_id)} :
        /\ Len(PathAfter(r.last, last.path)) <= MaxPath
        /\ submissions' = r.submissions
        /\ last' = r.last @@ [path |-> PathAfter(r.last, last.path)]
        /\ UNCHANGED <<Graph, requests, responses>>

NextPage(submission_id) ==
    \E r \in {get_next_page_for_submission(submission_id)} :
        /\ Len(PathAfter(r.last, last.path)) <= MaxPath
        /\ submissions' = r.submissions
        /\ last' = r.last @@ [path |-> PathAfter(r.last, last.path)]
        /\ UNCHANGED <<Graph, requests, responses>>

AnswerOnPath(session_id, field_id, value) ==
    \E r \in {submit_answer(session_id, field_id, value)} :
        /\ responses' = r.responses
        /\ last' = r.last @@ [path |-> last.path]
        /\ UNCHANGED <<Graph, requests, submissions>>

NextPath ==
    \/ \E session_id \in SessionIds : OpenForm(1, session_id)
    \/ \E submission_id \in 1..MaxSubmissions : PreviousPage(submission_id)
    \/ \E submission_id \in 1..MaxSubmissions : NextPage(submission_id)
    \/ \E session_id \in SessionIds, choice \in PathSubmitChoices :
          AnswerOnPath(session_id, choice[1], choice[2])

SpecPath == InitPath /\ [][NextPath]_vars

(***************************************************************************)
(* Vocabulary of the properties                                            *)
(***************************************************************************)
IsRender == last.call.op = "render_form" /\ last.ok

\* the stored pointer and status of a submission
Pointer(id) == SubmissionById(submissions, id).current_page_id

Status(id) == SubmissionById(submissions, id).status

\* the value stored for (submission, field name), None when there is no row
StoredRows(id, name) ==
    {i \in 1..Len(responses) :
        /\ responses[i].submission_id = id
        /\ \E j \in 1..Len(fields) :
              fields[j].id = responses[i].field_id /\ fields[j].name = name}

StoredValue(id, name) ==
    IF StoredRows(id, name) = {} THEN NULL
    ELSE responses[CHOOSE i \in StoredRows(id, name) : TRUE].value

HasStoredRows(id) == \E i \in 1..Len(responses) : responses[i].submission_id = id

\* the names of the fields of a page
PageFieldNames(page_id) ==
    {fields[j].name : j \in {k \in 1..Len(fields) : fields[k].page_id = page_id}}

\* some field of the page has a stored non-null, non-empty answer
HasStoredAnswerOn(id, page_id) ==
    \E n \in PageFieldNames(page_id) : HasAnswer(StoredValue(id, n))

\* the total order (not isFirst, order) on the pages of a form, ties by id
FormPages(form_id) == {pages[i] : i \in {k \in 1..Len(pages) : pages[k].form_id = form_id}}

TotalOrderBefore(p, q) ==
    \/ p.is_first /\ ~q.is_first
    \/ p.is_first = q.is_first /\ p.order < q.order
    \/ p.is_first = q.is_first /\ p.order = q.order /\ p.id < q.id

FirstPageId(form_id) ==
    (CHOOSE p \in FormPages(form_id) :
        \A q \in FormPages(form_id) \ {p} : TotalOrderBefore(p, q)).id

SuccessorId(form_id, page_id) ==
    LET p == CHOOSE x \in FormPages(form_id) : x.id = page_id
        later == {q \in FormPages(form_id) : TotalOrderBefore(p, q)}
    IN  IF later = {} THEN NoId
        ELSE (CHOOSE q \in later : \A r \in later \ {q} : TotalOrderBefore(q, r)).id

\* the step is a render_form call that repeats the call recorded in `last`
RepeatedRender ==
    /\ IsRender
    /\ last'.call.op = "render_form"
    /\ last'.ok
    /\ last'.call = last.call

\* the second call returns what the first returned and leaves pointer and status alone
SameOutcome ==
    /\ last'.response = last.response
    /\ Len(submissions') = Len(submissions)
    /\ \A i \in 1..Len(submissions) :
          /\ submissions'[i].current_page_id = submissions[i].current_page_id
          /\ submissions'[i].status = submissions[i].status

\* the recorded render returned another page than the one it selected
Advanced == last.response.current_page.id # last.selected_page_id

CalledSubmission ==
    First(SelectSeq(submissions, LAMBDA x :
             x.session_id = last'.call.session_id /\ x.form_id = last'.call.form_id),
          AbsentRow)

PointerUsable ==
    /\ CalledSubmission.id # NoId
    /\ CalledSubmission.current_page_id # NoId
    /\ \E p \in FormPages(last'.call.form_id) : p.id = CalledSubmission.current_page_id

RenderStep == last'.call.op = "render_form" /\ last'.ok

C3_SelectionByMergedAnswers ==
    [][RenderStep =>
         IF /\ PointerUsable
            /\ \/ DOMAIN last'.call.in_flight # {}
               \/ HasStoredRows(CalledSubmission.id)
         THEN last'.selected_page_id = CalledSubmission.current_page_id
         ELSE last'.selected_page_id = FirstPageId(last'.call.form_id)]_vars

\* C3 as amended: the stored answers decide, not the merged ones: the
\* pointer's page is rendered iff the session existed, its pointer is a page
\* of the form and the session has at least one stored answer.
C3_SelectionByStoredAnswers ==
    [][RenderStep =>
         IF PointerUsable /\ HasStoredRows(CalledSubmission.id)
         THEN last'.selected_page_id = CalledSubmission.current_page_id
         ELSE last'.selected_page_id = FirstPageId(last'.call.form_id)]_vars

\* a render of an existing session selected the pointer's page, not the first page
C3_Witness ==
    /\ IsRender
    /\ ~last.is_new_submission
    /\ last.selected_page_id # FirstPageId(last.call.form_id)

\* the page that the recorded render returned
ReturnedPageId == last.response.current_page.id

\* the names of the fields of the form graph
FieldNames == {fields[j].name : j \in 1..Len(fields)}

\* the value of a name under the recorded call: the in-flight value when the
\* call carries the name, the stored value of the session otherwise
MergedValue(n) ==
    IF n \in DOMAIN last.call.in_flight
    THEN last.call.in_flight[n]
    ELSE StoredValue(last.submission_id, n)

(***************************************************************************)
(* C4: render_form returns is_complete = TRUE (and then writes the status  *)
(* completed) only when there is no next page and some field of the        *)
(* returned page has a stored non-null, non-empty answer; in-flight values *)
(* alone do not complete the session.                                      *)
(***************************************************************************)
C4_CompleteOnlyWithStoredAnswer ==
    (IsRender /\ last.response.is_complete)
        => /\ last.response.next_page_id = NoId
           /\ HasStoredAnswerOn(last.submission_id, ReturnedPageId)

(***************************************************************************)
(* C5: on a single-page form without navigation rules, render_form returns *)
(* no next page; it returns is_complete = FALSE while the page has no      *)
(* answer, and is_complete = TRUE with the status completed once a         *)
(* non-empty answer of a field of the page is stored.                      *)
(***************************************************************************)
SinglePageForm == Len(pages) = 1 /\ nav_rules = <<>>

C6_CompletedIsTerminal ==
    [][\A i \in 1..Len(submissions) :
          submissions[i].status = "completed"
              => /\ i <= Len(submissions')
                 /\ submissions'[i].id = submissions[i].id
                 /\ submissions'[i].status = "completed"]_vars

\* a render that returned is_complete = FALSE left a completed session completed
C6_Witness ==
    /\ IsRender
    /\ ~last.response.is_complete
    /\ Status(last.submission_id) = "completed"

(***************************************************************************)
(* C7: a submission whose status is completed has its completion timestamp *)
(* set, and when render_form returns is_complete = TRUE the stored status  *)
(* of the session is completed.                                            *)
(***************************************************************************)
C7_CompletedHasTimestamp ==
    /\ \A i \in 1..Len(submissions) :
          submissions[i].status = "completed" => submissions[i].completed_at
    /\ (IsRender /\ last.response.is_complete)
          => Status(last.submission_id) = "completed"

\* a render returned is_complete = TRUE and the timestamp of the session is set
C7_Witness ==
    /\ IsRender
    /\ last.response.is_complete
    /\ SubmissionById(submissions, last.submission_id).completed_at

(***************************************************************************)
(* C8: the answers of a render pass are the stored answers overridden by   *)
(* the in-flight ones: for a name of the in-flight answers the in-flight   *)
(* value is used, for another name the stored value, in the evaluation of  *)
(* the conditions, in the navigation and in current_value.                 *)
(***************************************************************************)
C8_MergedAnswers ==
    IsRender =>
        /\ \A n \in FieldNames \cup DOMAIN last.call.in_flight :
              /\ Get(last.current_answers, n) = MergedValue(n)
              /\ Get(last.navigation_answers, n) = MergedValue(n)
              /\ (n \in DOMAIN last.call.in_flight \/ StoredRows(last.submission_id, n) # {})
                    => Get(last.condition_evaluation_answers, n) = MergedValue(n)
        /\ \A i \in 1..Len(last.response.current_page.fields) :
              last.response.current_page.fields[i].current_value
                  = MergedValue(last.response.current_page.fields[i].name)

\* the call carried a value for a field that has another stored value, next
\* to a stored answer of a field that the call did not carry
C8_Witness ==
    /\ IsRender
    /\ \E n \in DOMAIN last.call.in_flight :
          /\ HasAnswer(StoredValue(last.submission_id, n))
          /\ StoredValue(last.submission_id, n) # last.call.in_flight[n]
          /\ n \in PageFieldNames(ReturnedPageId)
    /\ \E m \in FieldNames \ DOMAIN last.call.in_flight :
          HasAnswer(StoredValue(last.submission_id, m))

(***************************************************************************)
(* C10: when the returned page has no default rule and none of its         *)
(* non-default rules matches the answers of the pass (a page without rules *)
(* included), next_page_id is the page right after it in the (not          *)
(* is_first, order) total order, or none when it is the last one.          *)
(***************************************************************************)
\* the rule is a non-default rule whose source field value satisfies it
RuleMatchesMerged(rule) ==
    /\ ~rule.is_default
    /\ rule.source_field_id # NoId
    /\ \E j \in 1..Len(fields) :
          /\ fields[j].id = rule.source_field_id
          /\ evaluate_operator(rule.operator, MergedValue(fields[j].name), rule.value)

ReturnedPageRules ==
    {nav_rules[i] : i \in {k \in 1..Len(nav_rules) : nav_rules[k].page_id = ReturnedPageId}}

NoRuleApplies == \A rule \in ReturnedPageRules : ~rule.is_default /\ ~RuleMatchesMerged(rule)

C10_SequentialFallback ==
    (IsRender /\ NoRuleApplies)
        => last.response.next_page_id = SuccessorId(last.call.form_id, ReturnedPageId)

\* a page with a rule that does not match was rendered and the next page is
\* its successor in the total order
C10_Witness ==
    /\ IsRender
    /\ ReturnedPageRules # {}
    /\ NoRuleApplies
    /\ last.response.next_page_id # NoId
    /\ last.response.next_page_id = SuccessorId(last.call.form_id, ReturnedPageId)

(***************************************************************************)
(* C9: determine_next_page returns the target of the first non-default     *)
(* rule, in stored order, whose source field value satisfies its operator  *)
(* against its value; when no non-default rule matches it returns the      *)
(* target of the first default rule in stored order (none without one).    *)
(***************************************************************************)
IsResolve == last.call.op = "determine_next_page"

\* positions of the non-default rules that the answers of the call satisfy
MatchingRules ==
    {i \in 1..Len(nav_rules) :
        /\ ~nav_rules[i].is_default
        /\ nav_rules[i].source_field_id # NoId
        /\ \E j \in 1..Len(fields) :
              /\ fields[j].id = nav_rules[i].source_field_id
              /\ evaluate_operator(nav_rules[i].operator,
                                   Get(last.call.answers, fields[j].name),
                                   nav_rules[i].value)}

DefaultRules == {i \in 1..Len(nav_rules) : nav_rules[i].is_default}

Lowest(S) == CHOOSE i \in S : \A j \in S : i <= j

C9_FirstMatchThenFirstDefault ==
    IsResolve =>
        last.result =
            IF MatchingRules # {} THEN nav_rules[Lowest(MatchingRules)].target_page_id
            ELSE IF DefaultRules # {} THEN nav_rules[Lowest(DefaultRules)].target_page_id
            ELSE NoId

\* a default rule is stored before two matching rules of different targets,
\* and the call returned the target of the first matching rule
C9_Witness ==
    /\ IsResolve
    /\ \E d \in DefaultRules, i \in MatchingRules, j \in MatchingRules :
          /\ d < i
          /\ i < j
          /\ i = Lowest(MatchingRules)
          /\ nav_rules[i].target_page_id # nav_rules[j].target_page_id
          /\ nav_rules[i].target_page_id # nav_rules[d].target_page_id
          /\ last.result = nav_rules[i].target_page_id

(***************************************************************************)
(* C19: for every operator other than is_empty, evaluate_operator returns  *)
(* FALSE when the observed value is None, whatever the literal.            *)
(***************************************************************************)
IsEvaluate == last.call.op = "evaluate_operator"

C19_NoneIsFalse ==
    (IsEvaluate /\ last.call.field_value = NULL /\ last.call.operator # "is_empty")
        => last.result = FALSE

\* a negated comparison of None with a literal it differs from returned FALSE
C19_Witness ==
    /\ IsEvaluate
    /\ last.call.field_value = NULL
    /\ last.call.operator \in {"not_equals", "not_contains", "not_in"}
    /\ last.call.condition_value = A
    /\ last.result = FALSE

(***************************************************************************)
(* C20: is_empty is TRUE exactly when the observed value is None, the      *)
(* empty string or an empty list; is_not_empty is its negation for every   *)
(* observed value; neither depends on the literal.                         *)
(***************************************************************************)
EmptyValues == {NULL, EmptyStr, List(<<>>)}

C20_EmptinessOperators ==
    /\ (IsEvaluate /\ last.call.operator = "is_empty")
          => last.result = (last.call.field_value \in EmptyValues)
    /\ (IsEvaluate /\ last.call.operator = "is_not_empty")
          => last.result = (last.call.field_value \notin EmptyValues)

\* is_empty of an empty list, called with a non-empty literal, returned TRUE
C20_Witness ==
    /\ IsEvaluate
    /\ last.call.operator = "is_empty"
    /\ last.call.field_value = List(<<>>)
    /\ last.call.condition_value # <<>>
    /\ last.result = TRUE

(***************************************************************************)
(* Vocabulary of the resolver properties                                   *)
(***************************************************************************)
IsResolveField == last.call.op = "evaluate_field_conditions"

\* positions of the conditions of an action
WithAction(action) == {i \in 1..Len(conditions) : conditions[i].action = action}

\* positions of the conditions whose predicate the answers of the call satisfy
MetConditions ==
    {i \in 1..Len(conditions) :
        \E j \in 1..Len(fields) :
           /\ fields[j].id = conditions[i].source_field_id
           /\ evaluate_operator(conditions[i].operator,
                                Get(last.call.answers, fields[j].name),
                                conditions[i].value)}

ResolvedVisible == last.result.show /\ ~last.result.hide

(***************************************************************************)
(* C13: a field whose visibility conditions are all hide conditions is     *)
(* visible when no hide condition's predicate is true and hidden when at   *)
(* least one is true.                                                      *)
(***************************************************************************)
C13_HideOnly ==
    (IsResolveField /\ WithAction("hide") # {} /\ WithAction("show") = {})
        => ResolvedVisible = (WithAction("hide") \cap MetConditions = {})

\* one of two hide conditions is met, the other is not, and the field is hidden
C13_Witness ==
    /\ IsResolveField
    /\ WithAction("show") = {}
    /\ WithAction("hide") \cap MetConditions # {}
    /\ WithAction("hide") \ MetConditions # {}
    /\ ~ResolvedVisible

(***************************************************************************)
(* C14: a field that has both show and hide conditions is visible when     *)
(* none of its conditions' predicates is true.                             *)
(***************************************************************************)
C14_ShowAndHideVisibleByDefault ==
    (/\ IsResolveField
     /\ WithAction("show") # {}
     /\ WithAction("hide") # {}
     /\ MetConditions = {})
        => ResolvedVisible

C14_Witness ==
    /\ IsResolveField
    /\ WithAction("show") # {}
    /\ WithAction("hide") # {}
    /\ MetConditions = {}
    /\ ResolvedVisible

(***************************************************************************)
(* C15: when none of the field's condition predicates is true, the         *)
(* resolver returns enable = (the field has no disable condition) and      *)
(* require = (the field has a require condition).                          *)
(***************************************************************************)
C15_BaselineEnableRequire ==
    (IsResolveField /\ MetConditions = {})
        => /\ last.result.enable = (WithAction("disable") = {})
           /\ last.result.require = (WithAction("require") # {})

\* an unmet require condition next to an unmet disable condition: required, disabled
C15_Witness ==
    /\ IsResolveField
    /\ MetConditions = {}
    /\ WithAction("require") # {}
    /\ WithAction("disable") # {}
    /\ last.result.require
    /\ ~last.result.enable

(***************************************************************************)
(* C16: the skip flag is FALSE unless a skip condition's predicate is      *)
(* true: a field whose skip conditions are all unmet resolves to           *)
(* skip = FALSE.                                                           *)
(***************************************************************************)
C16_SkipOnlyWhenMet ==
    IsResolveField => last.result.skip = (WithAction("skip") \cap MetConditions # {})

(***************************************************************************)
(* Vocabulary of the rendered fields                                       *)
(***************************************************************************)
RenderedFields == {last.response.current_page.fields[i] :
                      i \in 1..Len(last.response.current_page.fields)}

\* the conditions that target a field
TargetConditions(field_id) ==
    {conditions[i] : i \in {k \in 1..Len(conditions) :
                               conditions[k].target_field_id = field_id}}

\* the predicate of the condition is true under the condition answers of the pass
MetInPass(c) ==
    \E j \in 1..Len(fields) :
       /\ fields[j].id = c.source_field_id
       /\ evaluate_operator(c.operator,
                            Get(last.condition_evaluation_answers, fields[j].name),
                            c.value)

ShowOnly(field_id) ==
    /\ TargetConditions(field_id) # {}
    /\ \A c \in TargetConditions(field_id) : c.action = "show"

(***************************************************************************)
(* C12: a rendered field whose conditions are all show conditions is       *)
(* invisible when no condition's predicate is true and visible when at     *)
(* least one is true.                                                      *)
(***************************************************************************)
C12_ShowOnly ==
    IsRender =>
        \A f \in RenderedFields :
            ShowOnly(f.id)
                => f.is_visible = (\E c \in TargetConditions(f.id) : MetInPass(c))

\* the matching answer of the source field is stored and the field is rendered visible
C12_Witness ==
    /\ IsRender
    /\ \E f \in RenderedFields :
          /\ ShowOnly(f.id)
          /\ f.is_visible
          /\ \E c \in TargetConditions(f.id), j \in 1..Len(fields) :
                /\ fields[j].id = c.source_field_id
                /\ c.operator = "equals"
                /\ StoredValue(last.submission_id, fields[j].name) = Str(c.value)

(***************************************************************************)
(* C17: a rendered field that is the target of a require condition whose   *)
(* predicate is true under the answers of the pass is returned with        *)
(* is_required = TRUE, whatever its static is_required.                    *)
(***************************************************************************)
C17_RequiredFromConditions ==
    IsRender =>
        \A f \in RenderedFields :
            (\E c \in TargetConditions(f.id) : c.action = "require" /\ MetInPass(c))
                => f.is_required

(***************************************************************************)
(* C11: a navigation decision that resolves to a rule without target page  *)
(* (a matched non-default rule, or the default rule when none matches) is  *)
(* terminal: render_form returns no next page and does not fall back to    *)
(* the sequential successor.                                               *)
(***************************************************************************)
\* positions of the rules of the returned page
ReturnedPageRuleIndexes ==
    {i \in 1..Len(nav_rules) : nav_rules[i].page_id = ReturnedPageId}

\* position of the rule the decision resolves to, 0 when it is unresolved
ResolvedRule ==
    LET matching == {i \in ReturnedPageRuleIndexes : RuleMatchesMerged(nav_rules[i])}
        defaults == {i \in ReturnedPageRuleIndexes : nav_rules[i].is_default}
    IN  IF matching # {} THEN Lowest(matching)
        ELSE IF defaults # {} THEN Lowest(defaults)
        ELSE 0

C11_RuleWithoutTargetIsTerminal ==
    (IsRender /\ ResolvedRule # 0 /\ nav_rules[ResolvedRule].target_page_id = NoId)
        => last.response.next_page_id = NoId

(***************************************************************************)
(* C18: the answers used to evaluate the conditions in a render pass have  *)
(* an entry for every field of the form: the merged answer when there is   *)
(* one, else the field's default when it is not empty, else the empty      *)
(* string, on the other pages as well as on the current one.               *)
(***************************************************************************)
\* the field has a merged answer: an in-flight value or a stored row
Answered(f) ==
    \/ f.name \in DOMAIN last.call.in_flight
    \/ StoredRows(last.submission_id, f.name) # {}

FormFields == {fields[j] : j \in 1..Len(fields)}

C18_EntryForEveryField ==
    IsRender =>
        \A f \in FormFields :
            /\ f.name \in DOMAIN last.condition_evaluation_answers
            /\ last.condition_evaluation_answers[f.name] =
                  IF Answered(f) THEN MergedValue(f.name)
                  ELSE IF HasDefault(f) THEN f.default_value
                  ELSE EmptyStr

\* C18 as amended: the empty string is entered only for the fields of the
\* page selected at the start of the pass; an unanswered field of another
\* page has its default as entry when the default is not empty and has no
\* entry otherwise.
C18_EntriesOfThePass ==
    IsRender =>
        \A f \in FormFields :
            IF Answered(f)
            THEN Get(last.condition_evaluation_answers, f.name) = MergedValue(f.name)
                 /\ f.name \in DOMAIN last.condition_evaluation_answers
            ELSE IF HasDefault(f)
            THEN /\ f.name \in DOMAIN last.condition_evaluation_answers
                 /\ last.condition_evaluation_answers[f.name] = f.default_value
            ELSE IF f.page_id = last.selected_page_id
            THEN /\ f.name \in DOMAIN last.condition_evaluation_answers
                 /\ last.condition_evaluation_answers[f.name] = EmptyStr
            ELSE f.name \notin DOMAIN last.condition_evaluation_answers

\* a pass with an answered field, an unanswered field of another page entered
\* with its default, and an unanswered field of another page without entry
C18_Witness ==
    /\ IsRender
    /\ \E f \in FormFields : Answered(f) /\ HasAnswer(MergedValue(f.name))
    /\ \E f \in FormFields :
          /\ ~Answered(f)
          /\ HasDefault(f)
          /\ f.page_id # last.selected_page_id
          /\ last.condition_evaluation_answers[f.name] = f.default_value
    /\ \E f \in FormFields :
          /\ ~Answered(f)
          /\ ~HasDefault(f)
          /\ f.page_id # last.selected_page_id
          /\ f.name \notin DOMAIN last.condition_evaluation_answers

(***************************************************************************)
(* C21: for equals, not_equals, contains and not_contains the result of    *)
(* evaluate_operator is the same when the letters of the observed value    *)
(* (a str, or the elements of a list) or of the literal are changed to     *)
(* upper case or to lower case, for every observed value that is not None. *)
(***************************************************************************)
UpperChar(c) ==
    IF c = "a" THEN "A" ELSE IF c = "b" THEN "B" ELSE c

Upper(s) == [i \in 1..Len(s) |-> UpperChar(s[i])]

\* the observed value with its letters in upper case, and in lower case
UpperValue(value) ==
    IF value.k = "list" THEN List([i \in 1..Len(value.v) |-> Upper(value.v[i])])
    ELSE [value EXCEPT !.v = Upper(value.v)]

LowerValue(value) ==
    IF value.k = "list" THEN List([i \in 1..Len(value.v) |-> Lower(value.v[i])])
    ELSE [value EXCEPT !.v = Lower(value.v)]

TextOperators == {"equals", "not_equals", "contains", "not_contains"}

C21_CaseInsensitive ==
    (/\ IsEvaluate
     /\ last.ok
     /\ last.call.operator \in TextOperators
     /\ last.call.field_value # NULL)
        => /\ last.result = evaluate_operator(last.call.operator,
                                              UpperValue(last.call.field_value),
                                              last.call.condition_value)
           /\ last.result = evaluate_operator(last.call.operator,
                                              LowerValue(last.call.field_value),
                                              last.call.condition_value)
           /\ last.result = evaluate_operator(last.call.operator,
                                              last.call.field_value,
                                              Upper(last.call.condition_value))
           /\ last.result = evaluate_operator(last.call.operator,
                                              last.call.field_value,
                                              Lower(last.call.condition_value))

(***************************************************************************)
(* C22: for an observed value that is not None, operator in is TRUE        *)
(* exactly when the lower-cased str() of the observed value is one of the  *)
(* items of the literal (split on commas, stripped, lower-cased), and      *)
(* not_in is the negation of in.                                           *)
(***************************************************************************)
\* str(value) of an observed value that is not None
Stringified(value) ==
    IF value.k = "list" THEN ListRepr(value.v) ELSE value.v

LiteralItems(condition_value) ==
    {Lower(Strip(SplitComma(condition_value, <<>>)[i])) :
        i \in 1..Len(SplitComma(condition_value, <<>>))}

C22_MembershipOfLoweredValue ==
    (/\ IsEvaluate
     /\ last.ok
     /\ last.call.operator \in {"in", "not_in"}
     /\ last.call.field_value # NULL)
        => last.result =
              ((last.call.operator = "in")
                 <=> (Lower(Stringified(last.call.field_value))
                         \in LiteralItems(last.call.condition_value)))

(***************************************************************************)
(* C23: evaluate_operator returns a boolean and raises nothing for every   *)
(* operator, observed value and literal (a None literal included), and a   *)
(* numeric operator returns FALSE when the observed value or the literal   *)
(* is not a number.                                                        *)
(***************************************************************************)
NumericOperators == {"greater_than", "less_than", "greater_equal", "less_equal"}

\* float() of the observed value succeeds
IsNumber(value) == value.k = "str" /\ ParseFloat(value.v).ok

IsRenderPage == last.call.op = "render_page_for_submission" /\ last.ok

\* the form of the session that the last call rendered
RenderedFormId == SubmissionById(submissions, last.submission_id).form_id

\* 100 percent, in hundredths of a percent
FullProgress == 10000

C24_ProgressRange ==
    (IsRender \/ IsRenderPage)
        => /\ last.response.progress \in 0..FullProgress
           /\ (last.response.progress = FullProgress)
                 <=> (SuccessorId(RenderedFormId, ReturnedPageId) = NoId)

\* a render of the three-page form advanced to its last page and returned 100,
\* after a render that returned less
C24_Witness ==
    /\ IsRender
    /\ Cardinality(FormPages(RenderedFormId)) = 3
    /\ last.should_advance
    /\ SuccessorId(RenderedFormId, ReturnedPageId) = NoId
    /\ last.response.progress = FullProgress

(***************************************************************************)
(* C25 as stated: the first render_form and the first submit_answer for a  *)
(* session identifier that has no session yet both succeed in creating the *)
(* session.                                                                *)
(***************************************************************************)
\* the rows of the sessions of (form, session identifier) in a table
SessionsOf(tsubmissions, form_id, session_id) ==
    {i \in 1..Len(tsubmissions) :
        tsubmissions[i].form_id = form_id /\ tsubmissions[i].session_id = session_id}

\* the rows of the sessions of a session identifier, under any form
SessionsNamed(tsubmissions, session_id) ==
    {i \in 1..Len(tsubmissions) : tsubmissions[i].session_id = session_id}

\* the step is a render_form of an existing form for which no session exists
FirstRender ==
    /\ last'.call.op = "render_form"
    /\ last'.call.form_id \in forms
    /\ SessionsOf(submissions, last'.call.form_id, last'.call.session_id) = {}

\* the step is a submit_answer for a session identifier without session
FirstSubmit ==
    /\ last'.call.op = "submit_answer"
    /\ SessionsNamed(submissions, last'.call.session_id) = {}

C25_LazyCreation ==
    [][/\ FirstRender
          => SessionsOf(submissions', last'.call.form_id, last'.call.session_id) # {}
       /\ FirstSubmit
          => /\ last'.ok
             /\ SessionsNamed(submissions', last'.call.session_id) # {}]_vars

(***************************************************************************)
(* C25, amended: the first render_form of an existing form for a (form,    *)
(* session identifier) without session creates exactly one session, in     *)
(* status in_progress unless that call itself returns is_complete; a       *)
(* submit_answer for a session identifier without session fails with       *)
(* "Submission not found" and creates neither a session nor an answer.     *)
(***************************************************************************)
C25_LazyCreationByRenderOnly ==
    [][/\ FirstRender
          => /\ Len(submissions') = Len(submissions) + 1
             /\ SessionsOf(submissions', last'.call.form_id, last'.call.session_id)
                   = {Len(submissions')}
             /\ submissions'[Len(submissions')].status =
                   (IF last'.ok /\ last'.response.is_complete
                    THEN "completed" ELSE "in_progress")
       /\ FirstSubmit
          => /\ ~last'.ok
             /\ last'.error = "Submission not found"
             /\ submissions' = submissions
             /\ responses' = responses]_vars

\* a render created the session, which is in progress on the returned page
C25_Witness ==
    /\ IsRender
    /\ last.is_new_submission
    /\ ~last.response.is_complete
    /\ Status(last.submission_id) = "in_progress"
    /\ Pointer(last.submission_id) = ReturnedPageId

(***************************************************************************)
(* C26: after every submit_answer the field_responses table holds at most  *)
(* one row per (session, field); the row of the submitted pair holds the   *)
(* text of the submitted value, the rows of the other pairs are as they    *)
(* were, and no other operation writes an answer.                          *)
(***************************************************************************)
\* the rows of a (session, field) pair in a table, in table order
RowsOfPair(tresponses, submission_id, field_id) ==
    SelectSeq(tresponses, LAMBDA r :
        r.submission_id = submission_id /\ r.field_id = field_id)

\* the (session, field) pairs that a table can hold rows for
Pairs(tresponses) ==
    {<<tresponses[i].submission_id, tresponses[i].field_id>> : i \in 1..Len(tresponses)}

SubmitStep == last'.call.op = "submit_answer" /\ last'.ok

C26_OneAnswerLastValue ==
    [][IF SubmitStep
       THEN /\ \A pair \in Pairs(responses') :
                  Len(RowsOfPair(responses', pair[1], pair[2])) = 1
            /\ Len(RowsOfPair(responses', last'.submission_id, last'.call.field_id)) = 1
            /\ RowsOfPair(responses', last'.submission_id, last'.call.field_id)[1].value
                  = ValueStr(last'.call.value)
            /\ \A pair \in Pairs(responses) \cup Pairs(responses') :
                  pair # <<last'.submission_id, last'.call.field_id>>
                     => RowsOfPair(responses', pair[1], pair[2])
                           = RowsOfPair(responses, pair[1], pair[2])
       ELSE responses' = responses]_vars

\* a submit_answer of a list replaced the stored value of its pair, next to
\* the answer of another field
C26_Witness ==
    /\ last.call.op = "submit_answer"
    /\ last.ok
    /\ last.updated
    /\ last.call.field_id = 1
    /\ last.call.value = List(<<A, B>>)
    /\ Len(responses) = 2
    /\ responses[1].field_id = 1
    /\ responses[1].value = Str(<<"a", ",", "b">>)
    /\ responses[2].field_id = 3

(***************************************************************************)
(* C27: when two submit_answer requests for the same (session, field) have *)
(* been processed, in whatever interleaving, the table holds exactly one   *)
(* row for the pair, and its value is the value of one of the two.         *)
(***************************************************************************)
\* requests m and n were for the same (session, field) and are both done
BothDone(m, n) ==
    /\ m # n
    /\ requests[m].pc = "done"
    /\ requests[n].pc = "done"
    /\ requests[m].submission_id = requests[n].submission_id
    /\ requests[m].field_id = requests[n].field_id

C27_LastWriteWins ==
    \A m, n \in 1..Len(requests) :
        BothDone(m, n)
            => /\ Len(RowsOfPair(responses, requests[m].submission_id,
                                 requests[m].field_id)) = 1
               /\ RowsOfPair(responses, requests[m].submission_id,
                             requests[m].field_id)[1].value
                     \in {ValueStr(requests[m].value), ValueStr(requests[n].value)}

(***************************************************************************)
(* C28: a render_form call of an existing form fails with a not-found      *)
(* error, and returns no page, when the form has no pages, and also when   *)
(* the page selected for rendering has no fields.                          *)
(***************************************************************************)
C28_NotFoundWithoutPagesOrFields ==
    (last.call.op = "render_form" /\ last.call.form_id \in forms)
        => /\ FormPages(last.call.form_id) = {}
                => ~last.ok /\ last.error = "No pages found for this form"
           /\ last.ok => PageFieldNames(last.selected_page_id) # {}

(***************************************************************************)
(* C30: render_form(F, s) reads only the answers stored under the session  *)
(* of (F, s), and submit_answer writes only to a session of the form that  *)
(* the field belongs to; the answers of a session with the same session    *)
(* identifier under another form are not seen by the render of (F, s).     *)
(***************************************************************************)
\* the form that a field belongs to
FormOfField(field_id) ==
    (CHOOSE p \in {pages[i] : i \in 1..Len(pages)} :
        p.id = FieldById(fields, field_id).page_id).form_id

C30_NoCrossSessionState ==
    /\ IsRender
          => \A n \in FieldNames :
                Get(last.db_answers, n) = StoredValue(last.submission_id, n)
    /\ (last.call.op = "submit_answer" /\ last.ok)
          => FormOfField(last.call.field_id)
                = SubmissionById(submissions, last.submission_id).form_id

(***************************************************************************)
(* C29: a render_form call leaves the stored answers and the form graph as *)
(* they were, whatever in-flight answers it carries; in the submissions    *)
(* table it changes at most the current page, the status and the           *)
(* completion timestamp of the sessions of the called (form, session       *)
(* identifier), and adds at most one row, for that pair, when it had none. *)
(***************************************************************************)
\* the rows differ at most in the pointer, the status and the timestamp
SameSession(old, new) ==
    [new EXCEPT !.current_page_id = old.current_page_id,
                !.status = old.status,
                !.completed_at = old.completed_at] = old

C29_RenderFrame ==
    [][last'.call.op = "render_form"
          => /\ responses' = responses
             /\ Graph' = Graph
             /\ Len(submissions') \in {Len(submissions), Len(submissions) + 1}
             /\ \A i \in 1..Len(submissions) :
                   IF i \in SessionsOf(submissions, last'.call.form_id,
                                       last'.call.session_id)
                   THEN SameSession(submissions[i], submissions'[i])
                   ELSE submissions'[i] = submissions[i]
             /\ Len(submissions') = Len(submissions) + 1
                   => /\ SessionsOf(submissions, last'.call.form_id,
                                    last'.call.session_id) = {}
                      /\ SessionsOf(submissions', last'.call.form_id,
                                    last'.call.session_id) = {Len(submissions')}]_vars

\* a render that carried an in-flight answer moved the pointer of its session
\* and completed it, next to the untouched session of the other form, and no
\* answer is stored
C29_Witness ==
    /\ IsRender
    /\ last.call.form_id = 9
    /\ DOMAIN last.call.in_flight # {}
    /\ last.response.is_complete
    /\ Status(last.submission_id) = "completed"
    /\ Pointer(last.submission_id) = ReturnedPageId
    /\ Len(submissions) = 2
    /\ submissions[1] = NewSubmission(1, 1, "s1")
    /\ responses = <<>>

(***************************************************************************)
(* C31: after any sequence of create_page, update_page and delete_page     *)
(* every form has at most one page with is_first = TRUE.                   *)
(***************************************************************************)
\* the ids of the pages of a form that are flagged first
FirstPages(form_id) ==
    {pages[i].id : i \in {k \in 1..Len(pages) :
                            pages[k].form_id = form_id /\ pages[k].is_first}}

C31_AtMostOneFirstPage ==
    \A form_id \in forms : Cardinality(FirstPages(form_id)) <= 1

\* a page was created as first in a form that already had a first page, and
\* it is now the only first page of the form
C31_Witness ==
    /\ last.call.op = "create_page"
    /\ last.call.is_first
    /\ Len(PagesOfForm(pages, last.call.form_id)) >= 2
    /\ FirstPages(last.call.form_id) = {last.page_id}

(***************************************************************************)
(* C36: after any sequence of create_page, update_page and delete_page     *)
(* every form that has a page has a page with is_first = TRUE.             *)
(***************************************************************************)
C36_SomeFirstPage ==
    \A form_id \in forms :
        PagesOfForm(pages, form_id) # <<>> => FirstPages(form_id) # {}

(***************************************************************************)
(* C38: the next_page_id returned by render_form and by                    *)
(* render_page_for_submission is None or the id of a page of the form of   *)
(* the rendered page, whatever navigation rules the builder has stored.    *)
(***************************************************************************)
C38_NextPageInSameForm ==
    (IsRender \/ IsRenderPage)
        => \/ last.response.next_page_id = NoId
           \/ \E p \in FormPages(RenderedFormId) : p.id = last.response.next_page_id

(***************************************************************************)
(* C32: a successful render_form on an existing session, called without    *)
(* in-flight answers, moves the pointer to the next page resolved on the   *)
(* selected page and returns that page when a next page was resolved and   *)
(* some field of the selected page has a stored non-null, non-empty        *)
(* answer; otherwise, and whenever in-flight answers are passed, it stays  *)
(* on the selected page.                                                   *)
(***************************************************************************)
\* the render returned the page and left the pointer of its session on it
RenderedOn(page_id) ==
    /\ last'.response.current_page.id = page_id
    /\ SubmissionById(submissions', last'.submission_id).current_page_id = page_id

\* a next page was resolved and the selected page has a stored answer
AdvanceDue ==
    /\ last'.resolved_next_page_id # NoId
    /\ \E n \in PageFieldNames(last'.selected_page_id) :
          HasAnswer(StoredValue(last'.submission_id, n))

C32_AdvanceExactlyWhenDue ==
    [][(RenderStep /\ ~last'.is_new_submission)
          => IF DOMAIN last'.call.in_flight = {} /\ AdvanceDue
             THEN RenderedOn(last'.resolved_next_page_id)
             ELSE RenderedOn(last'.selected_page_id)]_vars

(***************************************************************************)
(* C33: when render_form or render_page_for_submission has returned a      *)
(* page, the stored pointer of the session is the id of that page, and the *)
(* page is a page of the form of the session.                              *)
(***************************************************************************)
C33_PointerOnReturnedPage ==
    (IsRender \/ IsRenderPage)
        => /\ Pointer(last.submission_id) = ReturnedPageId
           /\ \E p \in FormPages(RenderedFormId) : p.id = ReturnedPageId

\* a render advanced from the selected page to another page of the form and
\* the pointer is on the page it returned
C33_Witness ==
    /\ IsRender
    /\ last.should_advance
    /\ ReturnedPageId # last.selected_page_id
    /\ ReturnedPageId = last.resolved_next_page_id
    /\ Pointer(last.submission_id) = ReturnedPageId

(***************************************************************************)
(* C34: when a show condition and a hide condition of a field are both     *)
(* met, the field is visible exactly when the last met one of them in the  *)
(* condition list is a show condition; likewise enabled for enable and     *)
(* disable; and every result has show = ~hide and enable = ~disable.       *)
(***************************************************************************)
\* the last met condition among those of two opposite actions
LastMet(action, opposite) ==
    Lowest({0 - i : i \in MetConditions \cap (WithAction(action) \cup WithAction(opposite))})

BothMet(action, opposite) ==
    /\ MetConditions \cap WithAction(action) # {}
    /\ MetConditions \cap WithAction(opposite) # {}

C34_LastMetWins ==
    IsResolveField
        => /\ last.result.show = ~last.result.hide
           /\ last.result.enable = ~last.result.disable
           /\ BothMet("show", "hide")
                 => last.result.show
                       = (conditions[0 - LastMet("show", "hide")].action = "show")
           /\ BothMet("enable", "disable")
                 => last.result.enable
                       = (conditions[0 - LastMet("enable", "disable")].action = "enable")

\* a met show condition followed by a met hide condition left the field hidden
C34_Witness ==
    /\ IsResolveField
    /\ Len(conditions) = 2
    /\ conditions[1].action = "show"
    /\ conditions[2].action = "hide"
    /\ MetConditions = {1, 2}
    /\ last.result.hide
    /\ ~last.result.show

(***************************************************************************)
(* C35: submit_answer leaves the submissions table (pointer, status and    *)
(* completion timestamp of every session) and the form graph as they were; *)
(* it changes no answer row other than the row of its (session, field),    *)
(* adds at most that row, changes nothing when it fails, and its response  *)
(* carries next_page_id = None and is_complete = FALSE.                    *)
(***************************************************************************)
\* the row is the answer of the pair of the call
OfCalledPair(row) ==
    row.submission_id = last'.submission_id /\ row.field_id = last'.call.field_id

C37_OneSessionPerFormAndIdentifier ==
    \A form_id \in forms, session_id \in SessionIds :
        Cardinality(SessionsOf(submissions, form_id, session_id)) <= 1

(***************************************************************************)
(* C39: a render_form call that fails with a not-found error (unknown      *)
(* form, or form without pages) leaves the stored state as it was: no      *)
(* session is created and no pointer or status is changed.                 *)
(***************************************************************************)
C39_FailedRenderChangesNothing ==
    [][(last'.call.op = "render_form" /\ ~last'.ok)
          => /\ submissions' = submissions
             /\ responses' = responses]_vars

(***************************************************************************)
(* C40: a previous-page call that succeeds returns the page that the       *)
(* respondent was on immediately before the current page on the path they  *)
(* walked, and moves the session pointer to that page; the call is refused *)
(* when the current page is the first page of the total order.             *)
(***************************************************************************)
CalledPrevious == last'.call.op = "get_previous_page_for_submission"

PointerOf(tsubmissions, submission_id) ==
    IF IndexOfId(tsubmissions, submission_id) = 0 THEN NoId
    ELSE SubmissionById(tsubmissions, submission_id).current_page_id

C40_PreviousIsPageBeforeOnPath ==
    [][CalledPrevious =>
         /\ last'.ok =>
              /\ Len(last.path) >= 2
              /\ last'.response.current_page.id = last.path[Len(last.path) - 1]
              /\ PointerOf(submissions', last'.call.submission_id)
                    = last.path[Len(last.path) - 1]
         /\ (/\ PointerOf(submissions, last'.call.submission_id) # NoId
             /\ PointerOf(submissions, last'.call.submission_id)
                   = SortedPages(pages, 1)[1].id) => ~last'.ok]_vars

====
